---- MODULE Spec2Model ----
(***************************************************************************)
(* Submission processing pipeline of aqua-ai (api/process.js).             *)
(*                                                                         *)
(* The revisions of the process handler are modelled side by side; the    *)
(* deployment runs one of them (cfg.variant):                              *)
(*   "ledger"   - src/api/process.js:136-288, two record-store ledgers     *)
(*                (Originals + Submissions), fixed property mapping;       *)
(*   "adaptive" - src/unnamed/part_001:136-302, one ledger, property      *)
(*                shapes chosen from the live schema (getDbPropsMeta);     *)
(*   "derived"  - src/unnamed/part_000:72-145, the derived artifact only,  *)
(*                no original object and no record store;                  *)
(*   "legacy"   - src/api/process.js:354-427, the first derived-only       *)
(*                handler, with its own sanitizeBase and catch block.      *)
(* The preview handler (api/preview.js) has two revisions of its own:       *)
(*   "previewV1" - src/api/preview.js:6-44;                                *)
(*   "preview"   - src/api/preview.js:77-121.                              *)
(* Every await of the handler is one action; the object store (S3) and    *)
(* the record store (Notion) are shared by all requests.                   *)
(***************************************************************************)
EXTENDS Integers, Sequences, FiniteSets, TLC

VARIABLES
  cfg,      \* process configuration: handler revision and environment variables
  clock,    \* Date.now(), in milliseconds
  db,       \* properties of the Submissions database in the record store
  store,    \* keys written to the object store
  pages,    \* pages of the record store, in creation order
  pc,       \* per request: the await the handler is at
  req,      \* per request: the parsed form
  loc,      \* per request: the handler's local variables
  log,      \* per request: the external calls made so far, with their outcome
  resp      \* per request: the response sent

vars == <<cfg, clock, db, store, pages, pc, req, loc, log, resp>>

(***************************************************************************)
(* Bounds of the model                                                     *)
(***************************************************************************)
MaxModels == 2          \* longest `models` list a submission carries
MaxClock == 1           \* milliseconds the clock advances while requests are served
MaxName == 3            \* characters of a file name after its padding
MaxFields == 2          \* file fields of a form

Reqs == {"r1", "r2"}
FirstReq == "r1"
Variants == {"ledger", "adaptive", "derived", "legacy"}
ModelIds == {"dehaze", "superres", ""}
FileSizes == {60, 61}   \* upload sizes in MB, around the ceiling
OutSizes == {1, 2}      \* byte lengths of the encoded JPEG

(***************************************************************************)
(* Program constants                                                       *)
(***************************************************************************)
MAX_FILE_MB == 60
STATUS_DONE == "Done"
STATUS_OPTIONS == <<"Done", "Error">>

\* MAP of the adaptive handler: logical field -> external property name
MAP ==
  [title |-> "Name", email |-> "user_email", models |-> "models",
   status |-> "status", watermark |-> "watermark",
   originalFiles |-> "original_files", originalUrl |-> "original_links",
   outputUrl |-> "output_links", createdAt |-> "created_at",
   completedAt |-> "completed_at", consentGallery |-> "consent_gallery",
   consentTraining |-> "consent_training", notes |-> "notes"]

\* MAP.SUB of the two-ledger handler
MAP_SUB ==
  [title |-> "Name", email |-> "Email", models |-> "Models",
   status |-> "Status", outputUrl |-> "OutputURL",
   originalUrl |-> "OriginalURL", consentGallery |-> "ConsentGallery",
   consentTraining |-> "ConsentTraining", createdAt |-> "CreatedAt",
   completedAt |-> "CompletedAt", relationOriginal |-> "Original"]

\* MAP.ORIG of the two-ledger handler
MAP_ORIG ==
  [title |-> "Name", email |-> "Email", url |-> "URL", s3key |-> "S3Key",
   size |-> "SizeBytes", mimetype |-> "MimeType",
   retentionDays |-> "RetentionDays", relationSubmission |-> "Submission",
   filePreview |-> "OriginalFile", createdAt |-> "CreatedAt"]

Range(f) == {f[x] : x \in DOMAIN f}

\* external property names the handler's Submissions mapping configures
MappedNames(variant) ==
  IF variant = "adaptive" THEN Range(MAP) ELSE Range(MAP_SUB)

StatusName(variant) == IF variant = "adaptive" THEN MAP.status ELSE MAP_SUB.status
ModelsName(variant) == IF variant = "adaptive" THEN MAP.models ELSE MAP_SUB.models

(***************************************************************************)
(* Values                                                                  *)
(***************************************************************************)
EmptyFn == [n \in {} |-> "none"]
NoKey == [role |-> "none", ms |-> 0, rnd |-> 0, name |-> <<>>]
NoResp == [status |-> 0]
NoText == [text |-> "none", n |-> 0]                 \* fields.max_width is missing
Digits(n) == [text |-> "digits", n |-> n]            \* fields.max_width = `${n}`
Letters == [text |-> "letters", n |-> 0]             \* no leading digit
Photo == [width |-> 2000, height |-> 1500]           \* what sharp reads from an upload
NoReq == [method |-> "none", files |-> <<>>, size |-> 0, json |-> "absent",
          models |-> <<>>, wm |-> FALSE, mimetype |-> "", filename |-> <<>>,
          image |-> Photo, max_width |-> NoText]
NoLoc == [origKey |-> NoKey, origLen |-> 0, steps |-> <<>>,
          outKey |-> NoKey, outLen |-> 0,
          metaOk |-> FALSE, meta |-> EmptyFn, newOptions |-> <<>>,
          originalPageId |-> 0]

SeqsUpTo(S, n) == UNION {[1..k -> S] : k \in 0..n}
ToSet(s) == {s[i] : i \in 1..Len(s)}

(***************************************************************************)
(* File names.  A name is a sequence of characters; the alphabet holds a   *)
(* character of every class the sanitizer tells apart.                     *)
(***************************************************************************)
WordChars == {"a", "A", "e", "g", "i", "m", "7", "_"}   \* \w
Separators == {"/", "\\"}                                \* [/\\]
Alphabet == {"a", "A", ".", " ", "é"} \cup Separators

\* String.prototype.normalize('NFKD'), one character: a precomposed letter
\* becomes its base letter followed by the combining mark
NFKD(c) == IF c = "é" THEN <<"e", "´">> ELSE <<c>>

RECURSIVE normalize(_)
normalize(s) ==
  IF s = <<>> THEN <<>> ELSE NFKD(Head(s)) \o normalize(Tail(s))

\* [\w\-]
IsWord(c) == c \in WordChars \cup {"-"}

\* largest index of s holding a character of C, 0 when there is none
LastIndexOf(s, C) ==
  LET at == {i \in 1..Len(s) : s[i] \in C}
  IN  IF at = {} THEN 0 ELSE CHOOSE i \in at : \A j \in at : j <= i

\* .split(/[/\\]/).pop()
LastSegment(s) == SubSeq(s, LastIndexOf(s, Separators) + 1, Len(s))

\* .replace(/\.[^.]+$/, ''): the last dot and what follows it, unless the
\* name ends with that dot
StripExtension(s) ==
  LET d == LastIndexOf(s, {"."})
  IN  IF d = 0 \/ d = Len(s) THEN s ELSE SubSeq(s, 1, d - 1)

\* .replace(/[^\w\-]+/g, '_'): every run of other characters becomes one '_'
RECURSIVE ReplaceRuns(_, _)
ReplaceRuns(s, inRun) ==
  IF s = <<>> THEN <<>>
  ELSE IF IsWord(Head(s)) THEN <<Head(s)>> \o ReplaceRuns(Tail(s), FALSE)
  ELSE IF inRun THEN ReplaceRuns(Tail(s), TRUE)
  ELSE <<"_">> \o ReplaceRuns(Tail(s), TRUE)

\* .slice(0, n)
Slice(s, n) == SubSeq(s, 1, IF Len(s) < n THEN Len(s) ELSE n)

image == <<"i", "m", "a", "g", "e">>
BASE_MAX == 64

\* sanitizeBase of the handlers that go through strField (process.js:92-100,
\* part_000:62-70, part_001): x || 'image' before and after the chain
sanitizeBase(name) ==
  LET s == IF name = <<>> THEN image ELSE name
      t == Slice(ReplaceRuns(normalize(StripExtension(LastSegment(s))), FALSE),
                 BASE_MAX)
  IN  IF t = <<>> THEN image ELSE t

\* sanitizeBase of the first derived-only handler (process.js:346-352): no
\* path split, and no placeholder after the chain
sanitizeBaseV1(name) ==
  LET s == IF name = <<>> THEN image ELSE name
  IN  Slice(ReplaceRuns(normalize(StripExtension(s)), FALSE), BASE_MAX)

\* path.extname(name): from the last dot of the last path segment, '' when
\* there is no dot or the segment only starts with one
extname(name) ==
  LET seg == SubSeq(name, LastIndexOf(name, {"/"}) + 1, Len(name))
      d == LastIndexOf(seg, {"."})
  IN  IF d <= 1 \/ seg = <<".", ".">> THEN <<>> ELSE SubSeq(seg, d, Len(seg))

\* String.prototype.toLowerCase
toLowerCase(s) == [i \in 1..Len(s) |-> IF s[i] = "A" THEN "a" ELSE s[i]]

bin == <<".", "b", "i", "n">>
out_jpg == <<"_", "o", "u", "t", ".", "j", "p", "g">>

\* (path.extname(...) || '').slice(0, 10).toLowerCase() || '.bin'
Ext(name) ==
  LET e == toLowerCase(Slice(extname(name), 10))
  IN  IF e = <<>> THEN bin ELSE e

\* `${role}/${folder}/${Date.now()}-${crypto.randomBytes(3).toString('hex')}/${name}`;
\* the folder is the date of the same clock reading and adds nothing to it
Key(role, ms, rnd, name) == [role |-> role, ms |-> ms, rnd |-> rnd, name |-> name]

\* `${cdnBase}/${key}`
Url(key) == <<"cdnBase", "/", key>>

(***************************************************************************)
(* The parsed form.  `files` lists the values of the file fields in the     *)
(* order Object.values(files) enumerates them; a value is one file, a list *)
(* of files, or nothing.  The files of one form differ by their names.      *)
(***************************************************************************)
File(name) == [originalFilename |-> name]
null == [originalFilename |-> <<"null">>]

One(file) == [array |-> FALSE, items |-> <<file>>]    \* files[k] = file
Many(items) == [array |-> TRUE, items |-> items]       \* files[k] = [file, ..]
Nothing == [array |-> FALSE, items |-> <<>>]           \* files[k] = undefined

\* the form of an upload that names its file in the `filename` field
OneFile == <<One(File(<<>>))>>

\* variant of pickFirstFile: only the first field is looked at
pickFirstFile_firstField(files) ==
  IF files = <<>> \/ Head(files).items = <<>> THEN null
  ELSE Head(files).items[1]

\* for (const v of Object.values(files)) { if (!v) continue;
\*   if (Array.isArray(v)) { if (v[0]) return v[0]; } else return v; }
\* return null;
RECURSIVE pickFirstFile(_)
pickFirstFile(files) ==
  IF files = <<>> THEN null
  ELSE LET v == Head(files) IN
       IF ~v.array /\ v.items = <<>> THEN pickFirstFile(Tail(files))
       ELSE IF v.array
       THEN IF v.items # <<>> THEN v.items[1] ELSE pickFirstFile(Tail(files))
       ELSE v.items[1]

\* strField(fields.filename) || f.originalFilename
Filename(q) ==
  IF q.filename # <<>> THEN q.filename
  ELSE pickFirstFile(q.files).originalFilename

\* What the `models` field holds (q.json): "list", a JSON list of the
\* strings q.models; "string", one JSON string, the text q.models[1]; "null",
\* "number", "object", another JSON value; "malformed", a text that is no
\* JSON; "absent", no text.
JsonKinds == {"absent", "malformed", "list", "string", "null", "number", "object"}

\* (() => { try { return JSON.parse(strField(fields.models) || '[]'); }
\*          catch { return []; } })(): the kind of value `models` is bound to
Parsed(q) == IF q.json \in {"absent", "malformed"} THEN "list" ELSE q.json

\* Array.isArray(models)
IsList(q) == Parsed(q) = "list"

\* models.includes is a function: Array.prototype.includes of a list,
\* String.prototype.includes of a string, undefined for any other value
HasIncludes(q) == Parsed(q) \in {"list", "string"}

\* the identifiers x for which models.includes(x) holds: the elements of a
\* list, the identifier a string spells (no identifier is part of another)
Listed(q) == IF q.json \in {"list", "string"} THEN q.models ELSE <<>>

\* models.length of a list or a string
Length(q) ==
  IF q.json = "list" THEN Len(q.models)
  ELSE IF q.json = "string" /\ q.models # <<"">> THEN 1 ELSE 0

(***************************************************************************)
(* Record-store schema (Notion database): property name -> type, options   *)
(***************************************************************************)
Prop(type, options) == [type |-> type, options |-> options]

\* property types the operator's comments in the mapping tables declare
DeclaredKind(variant) ==
  IF variant = "adaptive"
  THEN [title |-> "title", email |-> "email", models |-> "multi_select",
        status |-> "select", watermark |-> "checkbox",
        originalFiles |-> "files", originalUrl |-> "url",
        outputUrl |-> "url", createdAt |-> "date",
        completedAt |-> "checkbox", consentGallery |-> "checkbox",
        consentTraining |-> "checkbox", notes |-> "rich_text"]
  ELSE [title |-> "title", email |-> "email", models |-> "multi_select",
        status |-> "select", outputUrl |-> "url", originalUrl |-> "url",
        consentGallery |-> "checkbox", consentTraining |-> "checkbox",
        createdAt |-> "date", completedAt |-> "date",
        relationOriginal |-> "relation"]

\* kinds the mapping comments allow as alternatives ("Status 또는 Select",
\* "Date가 아니면 rich_text", "Date면 날짜로 기록")
AlternateKind(variant) ==
  [f \in DOMAIN DeclaredKind(variant) |->
     CASE f = "status" -> "status"
       [] f = "createdAt" -> "rich_text"
       [] f = "completedAt" -> IF variant = "adaptive" THEN "date" ELSE "rich_text"
       [] OTHER -> DeclaredKind(variant)[f]]

FieldMap(variant) == IF variant = "adaptive" THEN MAP ELSE MAP_SUB

\* field of the mapping that is configured as the external name n
FieldOf(variant, n) ==
  CHOOSE f \in DOMAIN FieldMap(variant) : FieldMap(variant)[f] = n

StatusOptionSets == {<<>>, <<"Done">>, <<"Done", "Error">>}
ModelsOptionSets == {<<>>, <<"dehaze">>}

\* a schema over the mapped names `names`, with kinds `kind` (by field) and the
\* given option lists for the select / multi_select properties
SchemaOver(variant, names, kind, sOpts, mOpts) ==
  [n \in names |->
     LET f == FieldOf(variant, n) IN
     Prop(kind[f],
          IF kind[f] = "select" /\ f = "status" THEN sOpts
          ELSE IF kind[f] = "multi_select" /\ f = "models" THEN mOpts
          ELSE <<>>)]

\* schemas the record store may hold when the service starts
Schemas(variant) ==
  IF variant \in {"derived", "legacy"} THEN {EmptyFn} ELSE
  LET all == MappedNames(variant)
      two == {StatusName(variant), ModelsName(variant)}
      foreign == [f \in DOMAIN FieldMap(variant) |-> "number"]
  IN  {SchemaOver(variant, all, DeclaredKind(variant), s, m) :
          s \in StatusOptionSets, m \in ModelsOptionSets}
      \cup {SchemaOver(variant, two, DeclaredKind(variant), s, m) :
          s \in StatusOptionSets, m \in ModelsOptionSets}
      \cup {SchemaOver(variant, all, AlternateKind(variant), <<>>, m) :
          m \in ModelsOptionSets}
      \cup {SchemaOver(variant, all, foreign, <<>>, <<>>)}
      \cup (IF variant = "ledger"
            THEN {SchemaOver(variant, all \ {MAP_SUB.relationOriginal},
                             DeclaredKind(variant), STATUS_OPTIONS, <<>>)}
            ELSE {})
      \cup {[n \in {"Other"} |-> Prop("rich_text", <<>>)]}

\* const notion = ... (process.js:69, part_001:57)
notion(c) ==
  IF c.variant = "adaptive" THEN c.NOTION_TOKEN /\ c.NOTION_SUB_DB
  ELSE c.NOTION_TOKEN

Configs ==
  {c \in [variant : Variants, BUCKET : BOOLEAN, NOTION_TOKEN : BOOLEAN,
          NOTION_SUB_DB : BOOLEAN, NOTION_ORIG_DB : BOOLEAN] :
     /\ c.variant = "adaptive" => ~c.NOTION_ORIG_DB
     /\ c.variant \in {"derived", "legacy"} =>
          ~(c.NOTION_TOKEN \/ c.NOTION_SUB_DB \/ c.NOTION_ORIG_DB)}

\* the handler also persists the original upload (2) 원본 업로드)
PersistOriginal(c) == c.variant \in {"ledger", "adaptive"}

\* const baseName = sanitizeBase(strField(fields.filename) || f.originalFilename)
BaseName(c, filename) ==
  IF c.variant = "legacy" THEN sanitizeBaseV1(filename) ELSE sanitizeBase(filename)

(***************************************************************************)
(* Initial state: the service is deployed, no request has arrived          *)
(***************************************************************************)
Init ==
  /\ cfg \in Configs
  /\ clock = 0
  /\ db \in Schemas(cfg.variant)
  /\ store = {}
  /\ pages = <<>>
  /\ pc = [r \in Reqs |-> "idle"]
  /\ req = [r \in Reqs |-> NoReq]
  /\ loc = [r \in Reqs |-> NoLoc]
  /\ log = [r \in Reqs |-> <<>>]
  /\ resp = [r \in Reqs |-> NoResp]

(***************************************************************************)
(* Errors.  An error has a cause and a message; the message is the set of  *)
(* keywords its lowercased text contains, among those the catch blocks     *)
(* look for.                                                               *)
(***************************************************************************)
Err(cause, msg) == [cause |-> cause, msg |-> msg]
Generic == Err("other", {})

\* rejection of form.parse when a file exceeds maxFileSize.  The wording is
\* formidable's, not the handler's: "maxFileSize exceeded, received ..."
\* (1.x) or "options.maxFileSize (N bytes) exceeded, ..." (2.x, 3.x), which
\* lowercased hold no keyword; a wording with "max file size" is what the
\* catch block looks for.
SizeLimitErrs == {Err("size", {}), Err("size", {"max file size"})}

\* rejections of s3.send: the object store refuses the credentials, the
\* signature or the permission (messages "Access Denied", "The request
\* signature we calculated does not match ...", or one that carries the error
\* code), or fails for another reason
PutErrs ==
  {Generic, Err("auth", {}), Err("auth", {"accessdenied"}),
   Err("auth", {"signature"}), Err("auth", {"invalidaccesskeyid"})}

\* rejections of the sharp pipeline: "Input file contains unsupported image
\* format", "Input buffer ...", a decoder message for a corrupt file
\* ("VipsJpeg: Premature end of JPEG file"), or another failure
TransformErrs ==
  {Generic, Err("format", {}), Err("format", {"unsupported"}),
   Err("format", {"input buffer", "unsupported"})}

\* catch (err) { const msg = String(err?.message || '').toLowerCase(); ... }
ErrorResponse(variant, msg) ==
  IF "max file size" \in msg
  THEN [status |-> 413, error |-> "file too large", limit_mb |-> MAX_FILE_MB]
  ELSE IF variant # "legacy" /\
          msg \cap {"accessdenied", "signature", "invalidaccesskeyid"} # {}
  THEN [status |-> 403, error |-> "s3 access denied"]
  ELSE IF msg \cap {"unsupported", "input buffer"} # {}
  THEN [status |-> 415, error |-> "unsupported image format"]
  ELSE [status |-> 500, error |-> "process failed"]

\* the request r ends with response rsp
Finish(r, rsp) ==
  /\ resp' = [resp EXCEPT ![r] = rsp]
  /\ pc' = [pc EXCEPT ![r] = "done"]

\* variant of Catch: the failure is logged and the flow goes on to the response
Catch_swallow(r, err) ==
  /\ pc' = [pc EXCEPT ![r] = "respond"]
  /\ UNCHANGED resp

\* variant of Catch: the catch block logs the error and sends nothing
Catch_silent(r, err) ==
  /\ pc' = [pc EXCEPT ![r] = "done"]
  /\ UNCHANGED resp

\* variant of Catch: the failed call is issued again
Catch_retry(r, err) == UNCHANGED <<pc, resp>>

\* the request r ends in the handler's catch block with error err
Catch(r, err) == Finish(r, ErrorResponse(cfg.variant, err.msg))

Logged(r, entry) == log' = [log EXCEPT ![r] = Append(@, entry)]

\* variant of RecorderCatch: no inner try block, the outer catch answers
RecorderCatch_rethrow(r) == Finish(r, ErrorResponse(cfg.variant, Generic.msg))

\* variant of RecorderCatch: each extension has its own try block, and the
\* page-create follows whatever its outcome
RecorderCatch_goOn(r) ==
  /\ pc' = [pc EXCEPT ![r] = IF pc[r] = "subCreate" THEN "respond" ELSE "subCreate"]
  /\ UNCHANGED resp

\* a record-store call of request r threw inside the try block of the
\* Submissions step: catch (e) { console.error(...) }, then the response
RecorderCatch(r) ==
  /\ pc' = [pc EXCEPT ![r] = "respond"]
  /\ UNCHANGED resp

(***************************************************************************)
(* Where the flow goes when it reaches the record-store step               *)
(***************************************************************************)
\* if (notion && NOTION_SUB_DB) { ... } of the two-ledger handler, and the
\* first await inside it (ensureSelectOptions returns at once on no names)
SubEntry(c) ==
  IF notion(c) /\ c.NOTION_SUB_DB THEN "ensStatus" ELSE "respond"

\* variant of MetaEntry: the record-store step is left out
MetaEntry_skip(c) == "respond"

\* 4) Notion 기록: first await of the record-store step
MetaEntry(c) ==
  IF c.variant = "adaptive"
  THEN IF notion(c) /\ c.NOTION_SUB_DB THEN "getMeta" ELSE "respond"
  ELSE IF notion(c) /\ c.NOTION_ORIG_DB THEN "origCreate" ELSE SubEntry(c)

\* variant of AfterParse: the original is persisted whatever the handler
AfterParse_always(c) == "putOriginal"

\* the first await after the form is parsed: the original upload where the
\* handler has one, the pipeline otherwise
AfterParse(c) == IF PersistOriginal(c) THEN "putOriginal" ELSE "transform"

(***************************************************************************)
(* Transform chain                                                         *)
(***************************************************************************)
Vocabulary == <<"color_restore", "dehaze", "stabilize", "superres">>

\* variant of Effects: every effect of the vocabulary is applied
Effects_all(models) == Vocabulary

\* variant of Effects: the known identifiers in the order of the request
Effects_asRequested(models) ==
  LET known(m) == m \in ToSet(Vocabulary) IN SelectSeq(models, known)

\* the effects the chain of if (models.includes(..)) statements applies
Effects(models) ==
  LET requested(m) == m \in ToSet(models) IN SelectSeq(Vocabulary, requested)

\* the sharp calls of one effect; sharp reports a width for every image it
\* decodes, so the resize of superres is always made
Calls(effect) ==
  CASE effect = "color_restore" -> <<"modulate 1.12", "linear 1.06 -4">>
    [] effect = "dehaze" -> <<"sharpen 1.5">>
    [] effect = "stabilize" -> <<"sharpen 0.6">>
    [] effect = "superres" -> <<"resize x1.5">>

RECURSIVE CallsOf(_)
CallsOf(effects) ==
  IF effects = <<>> THEN <<>> ELSE Calls(Head(effects)) \o CallsOf(Tail(effects))

\* let img = sharp(f.filepath).rotate()...; ...; img.jpeg({ quality: 92 })
Chain(c, models, wm) ==
  <<"rotate">>
  \o (IF PersistOriginal(c) THEN <<"withMetadata">> ELSE <<>>)
  \o CallsOf(Effects(models))
  \o (IF PersistOriginal(c) /\ wm THEN <<"composite">> ELSE <<>>)
  \o <<"jpeg 92">>

(***************************************************************************)
(* Image sizes.  img.metadata() reads the header of the input file: it     *)
(* reports the width and height of the upload whatever calls were chained. *)
(***************************************************************************)
\* Math.round(num / den), for num >= 0 and den > 0
Round(num, den) == (2 * num + den) \div (2 * den)

\* Math.max
Max(a, b) == IF a > b THEN a ELSE b

DEFAULT_MAX_WIDTH == 1280

\* parseInt(fields.max_width || '1280', 10)
maxWidth(q) ==
  CASE q.max_width.text = "none" -> [nan |-> FALSE, n |-> DEFAULT_MAX_WIDTH]
    [] q.max_width.text = "digits" -> [nan |-> FALSE, n |-> q.max_width.n]
    [] OTHER -> [nan |-> TRUE, n |-> 0]

\* meta.width && meta.width > maxWidth
Exceeds(q) ==
  q.image.width # 0 /\ ~maxWidth(q).nan /\ q.image.width > maxWidth(q).n

\* variant of ResizeWidth: the factor is applied and the fraction dropped
ResizeWidth_floor(c, q) ==
  IF c.variant \in {"previewV1", "preview"}
  THEN IF Exceeds(q) THEN maxWidth(q).n ELSE 0
  ELSE IF "superres" \in ToSet(Effects(Listed(q))) /\ q.image.width # 0
       THEN (3 * q.image.width) \div 2 ELSE 0

\* the width the pipeline asks resize for, 0 when it does not resize:
\* Math.round(meta.width * 1.5) under superres, maxWidth in the preview
ResizeWidth(c, q) ==
  IF c.variant \in {"previewV1", "preview"}
  THEN IF Exceeds(q) THEN maxWidth(q).n ELSE 0
  ELSE IF "superres" \in ToSet(Effects(Listed(q))) /\ q.image.width # 0
       THEN Round(3 * q.image.width, 2) ELSE 0

\* size of the encoded image: resize({ width }) keeps the aspect ratio
Output(c, q) ==
  LET w == ResizeWidth(c, q) IN
  IF w = 0 THEN q.image
  ELSE [width |-> w, height |-> Round(q.image.height * w, q.image.width)]

NoBar == [width |-> 0, height |-> 0, font |-> 0, left |-> 0, top |-> 0]

\* applyWatermarkBar(img): the overlay handed to img.composite
applyWatermarkBar(meta) ==
  LET w == IF meta.width # 0 THEN meta.width ELSE 1200
      h == IF meta.height # 0 THEN meta.height ELSE 800
      barH == Max(Round(w * 6, 100), 40)
      font == Max(Round(barH * 5, 10), 16)
  IN  [width |-> w, height |-> barH, font |-> font, left |-> 0, top |-> h - barH]

\* the overlay of request q, NoBar when none is composited
Bar(c, q) ==
  IF PersistOriginal(c) /\ q.wm THEN applyWatermarkBar(q.image) ELSE NoBar

(***************************************************************************)
(* Preview handler                                                         *)
(***************************************************************************)
PreviewVariants == {"previewV1", "preview"}

PreviewConfigs ==
  {[variant |-> v, BUCKET |-> FALSE, NOTION_TOKEN |-> FALSE,
    NOTION_SUB_DB |-> FALSE, NOTION_ORIG_DB |-> FALSE] : v \in PreviewVariants}

\* const f = Array.isArray(files.file) ? files.file[0] : files.file (the
\* field named file is the first of the form), pickFirstFile(files) later
PreviewFile(variant, files) ==
  IF variant = "previewV1"
  THEN IF files = <<>> \/ Head(files).items = <<>> THEN null
       ELSE Head(files).items[1]
  ELSE pickFirstFile(files)

\* variant of PreviewChain: the effects come before the downscale
PreviewChain_resizeLast(q) ==
  <<"rotate">>
  \o (IF "dehaze" \in ToSet(Listed(q)) THEN <<"sharpen 1.2">> ELSE <<>>)
  \o (IF Exceeds(q) THEN <<"resize max_width">> ELSE <<>>)
  \o <<"jpeg 90">>

\* let img = sharp(f.filepath).rotate(); ...; img.jpeg({ quality: 90 })
PreviewChain(q) ==
  LET includes(x) == x \in ToSet(Listed(q)) IN
  <<"rotate">>
  \o (IF Exceeds(q) THEN <<"resize max_width">> ELSE <<>>)
  \o (IF includes("color_restore")
      THEN <<"modulate 1.1", "linear 1.05 -5">> ELSE <<>>)
  \o (IF includes("dehaze") THEN <<"sharpen 1.2">> ELSE <<>>)
  \o (IF includes("stabilize") THEN <<"sharpen 0.5">> ELSE <<>>)
  \o <<"jpeg 90">>

\* catch (err) of the preview handler
PreviewError(variant, msg) ==
  IF variant = "previewV1" THEN [status |-> 500, text |-> "preview failed"]
  ELSE IF "max file size" \in msg
  THEN [status |-> 413, error |-> "file too large"]
  ELSE [status |-> 500, error |-> "preview failed"]

\* await parseForm(req); the file; JSON.parse(fields.models || '[]'), which
\* the first revision calls outside any try block of its own
previewParse(r) ==
  /\ pc[r] = "previewParse"
  /\ \/ /\ Finish(r, PreviewError(cfg.variant, Generic.msg))
        /\ Logged(r, [op |-> "parse", ok |-> FALSE, cause |-> "other"])
     \/ /\ Logged(r, [op |-> "parse", ok |-> TRUE])
        /\ IF PreviewFile(cfg.variant, req[r].files) = null
           THEN Finish(r, IF cfg.variant = "previewV1"
                          THEN [status |-> 400, text |-> "no file"]
                          ELSE [status |-> 400, error |-> "no file received"])
           ELSE IF cfg.variant = "previewV1" /\ req[r].json = "malformed"
           THEN Finish(r, PreviewError(cfg.variant, Generic.msg))
           ELSE /\ pc' = [pc EXCEPT ![r] = "previewRender"]
                /\ UNCHANGED resp
  /\ UNCHANGED <<cfg, clock, db, store, pages, req, loc>>

\* await img.metadata(); ...; await img.jpeg().toBuffer(); res.send(out)
previewRender(r) ==
  /\ pc[r] = "previewRender"
  /\ LET steps == PreviewChain(req[r]) IN
     \/ /\ ~HasIncludes(req[r])         \* models.includes(..) throws TypeError
        /\ Finish(r, PreviewError(cfg.variant, Generic.msg))
        /\ Logged(r, [op |-> "transform", ok |-> FALSE, cause |-> "type"])
        /\ UNCHANGED loc
     \/ /\ HasIncludes(req[r])
        /\ \E n \in OutSizes :
             /\ loc' = [loc EXCEPT ![r].steps = steps, ![r].outLen = n]
             /\ Logged(r, [op |-> "transform", steps |-> steps, ok |-> TRUE,
                           out |-> Output(cfg, req[r]), bar |-> NoBar])
             /\ Finish(r, [status |-> 200, type |-> "image/jpeg", bytes |-> n])
     \/ /\ HasIncludes(req[r])
        /\ \E err \in TransformErrs :
             /\ Finish(r, PreviewError(cfg.variant, err.msg))
             /\ Logged(r, [op |-> "transform", ok |-> FALSE, cause |-> err.cause])
             /\ UNCHANGED loc
  /\ UNCHANGED <<cfg, clock, db, store, pages, req>>

(***************************************************************************)
(* Handler, up to the derived put                                          *)
(***************************************************************************)
\* file names the requests of the full specification carry
ReceivedNames == {<<"a", " ", ".", "A">>}

\* a request arrives; the method and BUCKET checks answer at once
Receive(r) ==
  /\ r = FirstReq
  /\ pc[r] = "idle"
  /\ \E method \in {"POST", "OPTIONS", "GET"}, files \in {<<>>, OneFile},
        size \in FileSizes, models \in SeqsUpTo(ModelIds, MaxModels),
        wm \in BOOLEAN, filename \in ReceivedNames :
       /\ req' = [req EXCEPT ![r] =
                    [method |-> method, files |-> files, size |-> size,
                     json |-> "list", image |-> Photo, max_width |-> NoText,
                     models |-> models, wm |-> wm,
                     mimetype |-> "image/png", filename |-> filename]]
       /\ IF method = "OPTIONS" THEN Finish(r, [status |-> 204])
          ELSE IF method # "POST" THEN Finish(r, [status |-> 405])
          ELSE IF ~cfg.BUCKET
          THEN Finish(r, [status |-> 500, error |-> "missing env: AWS_BUCKET"])
          ELSE /\ pc' = [pc EXCEPT ![r] = "parseForm"]
               /\ UNCHANGED resp
  /\ UNCHANGED <<cfg, clock, db, store, pages, loc, log>>

\* 1) await parseForm(req); pickFirstFile(files)
parseForm(r) ==
  /\ pc[r] = "parseForm"
  /\ \/ \E err \in (IF req[r].size > MAX_FILE_MB THEN SizeLimitErrs
                                                  ELSE {Generic}) :
          /\ Catch(r, err)
          /\ Logged(r, [op |-> "parse", ok |-> FALSE, cause |-> err.cause])
     \/ /\ req[r].size <= MAX_FILE_MB
        /\ Logged(r, [op |-> "parse", ok |-> TRUE])
        /\ IF pickFirstFile(req[r].files) = null
           THEN Finish(r, [status |-> 400, error |-> "no file received"])
           ELSE /\ pc' = [pc EXCEPT ![r] = AfterParse(cfg)]
                /\ UNCHANGED resp
  /\ UNCHANGED <<cfg, clock, db, store, pages, req, loc>>

\* 2) origKey, fs.readFile, s3.send(PutObjectCommand) of the original;
\* Rand is the set of values crypto.randomBytes(3) may return
putOriginal(r, Rand) ==
  /\ pc[r] = "putOriginal"
  /\ \/ /\ Catch(r, Generic)                       \* fs.readFile rejects
        /\ Logged(r, [op |-> "readFile", ok |-> FALSE, cause |-> "other"])
        /\ UNCHANGED <<store, loc>>
     \/ \E rnd \in Rand :
          LET name == BaseName(cfg, Filename(req[r])) \o Ext(Filename(req[r]))
              key == Key("originals", clock, rnd, name)
              put(ok) == [op |-> "put", role |-> "originals", key |-> key,
                          bytes |-> req[r].size, ok |-> ok]
          IN \/ /\ store' = store \cup {key}
                /\ loc' = [loc EXCEPT ![r].origKey = key,
                                      ![r].origLen = req[r].size]
                /\ Logged(r, put(TRUE))
                /\ pc' = [pc EXCEPT ![r] = "transform"]
                /\ UNCHANGED resp
             \/ \E err \in PutErrs :
                  /\ Catch(r, err)
                  /\ Logged(r, put(FALSE) @@ [cause |-> err.cause])
                  /\ UNCHANGED <<store, loc>>
  /\ UNCHANGED <<cfg, clock, db, pages, req>>

\* 3) sharp(...).rotate() ... .jpeg().toBuffer()
transform(r) ==
  /\ pc[r] = "transform"
  /\ LET steps == Chain(cfg, Listed(req[r]), req[r].wm) IN
     \/ /\ ~HasIncludes(req[r])         \* models.includes(..) throws TypeError
        /\ Catch(r, Generic)
        /\ Logged(r, [op |-> "transform", ok |-> FALSE, cause |-> "type"])
        /\ UNCHANGED loc
     \/ /\ HasIncludes(req[r])
        /\ \E n \in OutSizes :
             /\ loc' = [loc EXCEPT ![r].steps = steps, ![r].outLen = n]
             /\ Logged(r, [op |-> "transform", steps |-> steps, ok |-> TRUE,
                           out |-> Output(cfg, req[r]),
                           bar |-> Bar(cfg, req[r])])
             /\ pc' = [pc EXCEPT ![r] = "putDerived"]
             /\ UNCHANGED resp
     \/ /\ HasIncludes(req[r])
        /\ \E err \in TransformErrs :
             /\ Catch(r, err)
             /\ Logged(r, [op |-> "transform", ok |-> FALSE, cause |-> err.cause])
             /\ UNCHANGED loc
  /\ UNCHANGED <<cfg, clock, db, store, pages, req>>

\* outKey, s3.send(PutObjectCommand) of the derived artifact
putDerived(r, Rand) ==
  /\ pc[r] = "putDerived"
  /\ \E rnd \in Rand :
       LET name == BaseName(cfg, Filename(req[r])) \o out_jpg
           key == Key("submissions", clock, rnd, name)
           put(ok) == [op |-> "put", role |-> "submissions", key |-> key,
                       bytes |-> loc[r].outLen, ok |-> ok]
       IN \/ /\ store' = store \cup {key}
             /\ loc' = [loc EXCEPT ![r].outKey = key]
             /\ Logged(r, put(TRUE))
             /\ pc' = [pc EXCEPT ![r] = MetaEntry(cfg)]
             /\ UNCHANGED resp
          \/ \E err \in PutErrs :
               /\ Catch(r, err)
               /\ Logged(r, put(FALSE) @@ [cause |-> err.cause])
               /\ UNCHANGED <<store, loc>>
  /\ UNCHANGED <<cfg, clock, db, pages, req>>

\* variant of SuccessResponse: the original entry reports the length of the
\* encoded output
SuccessResponse_outLength(r) ==
  [status |-> 200, url |-> Url(loc[r].outKey), key |-> loc[r].outKey,
   bytes |-> loc[r].outLen, wm |-> req[r].wm,
   original |-> [url |-> Url(loc[r].origKey), key |-> loc[r].origKey,
                 bytes |-> loc[r].outLen, mimetype |-> req[r].mimetype]]

\* 5) res.status(200).json({ url, key, bytes, wm, original }); the
\* derived-only handlers answer { url, key, bytes }
SuccessResponse(r) ==
  IF PersistOriginal(cfg)
  THEN [status |-> 200, url |-> Url(loc[r].outKey), key |-> loc[r].outKey,
        bytes |-> loc[r].outLen, wm |-> req[r].wm,
        original |-> [url |-> Url(loc[r].origKey), key |-> loc[r].origKey,
                      bytes |-> loc[r].origLen, mimetype |-> req[r].mimetype]]
  ELSE [status |-> 200, url |-> Url(loc[r].outKey), key |-> loc[r].outKey,
        bytes |-> loc[r].outLen]

respond(r) ==
  /\ pc[r] = "respond"
  /\ Finish(r, SuccessResponse(r))
  /\ Logged(r, [op |-> "respond", status |-> 200])
  /\ UNCHANGED <<cfg, clock, db, store, pages, req, loc>>

(***************************************************************************)
(* Record-store step: option extension                                     *)
(***************************************************************************)
\* variant of Missing: the names are not checked against the existing options
Missing_all(names, options) == names

\* names.filter(n => n && !existing.has(n))
Missing(names, options) ==
  LET absent(n) == n # "" /\ n \notin ToSet(options)
  IN  SelectSeq(names, absent)

\* variant of Kind: a property the snapshot lacks is taken to be text
Kind_assumed(meta, n) == IF n \in DOMAIN meta THEN meta[n] ELSE "rich_text"

\* meta?.[name]
Kind(meta, n) == IF n \in DOMAIN meta THEN meta[n] ELSE "undefined"

\* prop[type]?.options || []
OptionsOf(properties, n, type) ==
  IF n \in DOMAIN properties /\ properties[n].type = type
  THEN properties[n].options ELSE <<>>

\* the status names the handler asks the extension to ensure
EnsuredStatus(variant) ==
  IF variant = "adaptive" THEN <<STATUS_DONE>> ELSE STATUS_OPTIONS

\* the option list the status extension sends after retrieving `properties`,
\* or <<>> when it sends none: ensureSelectOptions(.., MAP.SUB.status,
\* MAP.STATUS_OPTIONS, 'select') and ensureSelectOptionIfNeeded(..,
\* MAP.status, STATUS_DONE)
StatusNewOptions(variant, properties) ==
  LET n == StatusName(variant)
      names == EnsuredStatus(variant)
      missing == Missing(names, OptionsOf(properties, n, "select"))
  IN  IF n \notin DOMAIN properties \/ properties[n].type # "select" THEN <<>>
      ELSE IF missing = <<>> THEN <<>>
      ELSE properties[n].options \o missing

\* variant of ModelsNewOptions: only the missing names are sent
ModelsNewOptions_onlyMissing(variant, properties, models) ==
  Missing(models, OptionsOf(properties, ModelsName(variant), "multi_select"))

\* the option list the models extension sends, or <<>> when it sends none:
\* ensureSelectOptions(.., MAP.SUB.models, models, 'multi_select') and the
\* inline block of the adaptive handler
ModelsNewOptions(variant, properties, models) ==
  LET n == ModelsName(variant)
      options == OptionsOf(properties, n, "multi_select")
      missing == Missing(models, options)
  IN  IF variant = "ledger" /\
         (n \notin DOMAIN properties \/ properties[n].type # "multi_select")
      THEN <<>>
      ELSE IF missing = <<>> THEN <<>>
      ELSE options \o missing

\* what follows the status extension, for the parsed form q.  A `models`
\* that is no list has no map method: building the page properties throws
\* inside the try block and the flow goes to the response
AfterStatus(variant, meta, q) ==
  IF variant = "adaptive"
  THEN IF Kind(meta, MAP.models) = "multi_select"
       THEN IF Length(q) > 0 THEN "ensModels"
            ELSE IF IsList(q) THEN "subCreate" ELSE "respond"
       ELSE "subCreate"
  ELSE IF ~IsList(q) THEN "respond"
  ELSE IF Length(q) = 0 THEN "subCreate" ELSE "ensModels"

\* what follows getDbPropsMeta
AfterMeta(meta, q) ==
  IF Kind(meta, MAP.status) = "select" THEN "ensStatus"
  ELSE AfterStatus("adaptive", meta, q)

\* const meta = await getDbPropsMeta(NOTION_SUB_DB)
getDbPropsMeta(r) ==
  /\ pc[r] = "getMeta"
  /\ \/ LET meta == [n \in DOMAIN db |-> db[n].type] IN
        /\ loc' = [loc EXCEPT ![r].metaOk = TRUE, ![r].meta = meta]
        /\ Logged(r, [op |-> "retrieve", for |-> "meta", seen |-> db, ok |-> TRUE])
        /\ pc' = [pc EXCEPT ![r] = AfterMeta(meta, req[r])]
     \/ /\ loc' = [loc EXCEPT ![r].metaOk = FALSE, ![r].meta = EmptyFn]
        /\ Logged(r, [op |-> "retrieve", for |-> "meta", seen |-> EmptyFn, ok |-> FALSE])
        /\ pc' = [pc EXCEPT ![r] = AfterMeta(EmptyFn, req[r])]
  /\ UNCHANGED <<cfg, clock, db, store, pages, req, resp>>

\* notion.databases.retrieve inside the status extension
ensureStatusRetrieve(r) ==
  /\ pc[r] = "ensStatus"
  /\ \/ LET new == StatusNewOptions(cfg.variant, db) IN
        /\ loc' = [loc EXCEPT ![r].newOptions = new]
        /\ Logged(r, [op |-> "retrieve", for |-> "status", seen |-> db, ok |-> TRUE])
        /\ pc' = [pc EXCEPT ![r] =
                    IF new # <<>> THEN "ensStatusUpd"
                    ELSE AfterStatus(cfg.variant, loc[r].meta, req[r])]
        /\ UNCHANGED resp
     \/ /\ Logged(r, [op |-> "retrieve", for |-> "status", seen |-> EmptyFn, ok |-> FALSE])
        /\ RecorderCatch(r)
        /\ UNCHANGED loc
  /\ UNCHANGED <<cfg, clock, db, store, pages, req>>

\* notion.databases.update({ properties: { [propName]: { select: { options } } } })
ensureStatusUpdate(r) ==
  /\ pc[r] = "ensStatusUpd"
  /\ LET n == StatusName(cfg.variant)
         upd(ok) == [op |-> "update", prop |-> n,
                     options |-> loc[r].newOptions, ok |-> ok]
     IN \/ /\ db' = [db EXCEPT ![n].options = loc[r].newOptions]
           /\ Logged(r, upd(TRUE))
           /\ pc' = [pc EXCEPT ![r] =
                       AfterStatus(cfg.variant, loc[r].meta, req[r])]
           /\ UNCHANGED resp
        \/ /\ Logged(r, upd(FALSE))
           /\ RecorderCatch(r)
           /\ UNCHANGED db
  /\ UNCHANGED <<cfg, clock, store, pages, req, loc>>

\* notion.databases.retrieve inside the models extension
ensureModelsRetrieve(r) ==
  /\ pc[r] = "ensModels"
  /\ \/ LET new == ModelsNewOptions(cfg.variant, db, req[r].models) IN
        /\ IsList(req[r])
        /\ loc' = [loc EXCEPT ![r].newOptions = new]
        /\ Logged(r, [op |-> "retrieve", for |-> "models", seen |-> db, ok |-> TRUE])
        /\ pc' = [pc EXCEPT ![r] =
                    IF new # <<>> THEN "ensModelsUpd" ELSE "subCreate"]
        /\ UNCHANGED resp
     \/ /\ ~IsList(req[r])               \* models.filter(..) throws TypeError
        /\ Logged(r, [op |-> "retrieve", for |-> "models", seen |-> db, ok |-> TRUE])
        /\ RecorderCatch(r)
        /\ UNCHANGED loc
     \/ /\ Logged(r, [op |-> "retrieve", for |-> "models", seen |-> EmptyFn, ok |-> FALSE])
        /\ RecorderCatch(r)
        /\ UNCHANGED loc
  /\ UNCHANGED <<cfg, clock, db, store, pages, req>>

\* notion.databases.update({ properties: { [MAP.models]: { multi_select: { options } } } })
ensureModelsUpdate(r) ==
  /\ pc[r] = "ensModelsUpd"
  /\ LET n == ModelsName(cfg.variant)
         upd(ok) == [op |-> "update", prop |-> n,
                     options |-> loc[r].newOptions, ok |-> ok]
     IN \/ /\ db' = [db EXCEPT ![n].options = loc[r].newOptions]
           /\ Logged(r, upd(TRUE))
           /\ pc' = [pc EXCEPT ![r] = "subCreate"]
           /\ UNCHANGED resp
        \/ /\ Logged(r, upd(FALSE))
           /\ RecorderCatch(r)
           /\ UNCHANGED db
  /\ UNCHANGED <<cfg, clock, store, pages, req, loc>>

(***************************************************************************)
(* Record-store step: page properties                                      *)
(***************************************************************************)
Value(shape, v) == [shape |-> shape, v |-> v]
NoValue == [shape |-> "none", v |-> "none"]

\* props[MAP.x] = ... of the adaptive handler, one logical field at a time:
\* the value written for field f under the snapshot meta, NoValue when the
\* field is skipped
AdaptiveValue(f, meta, r) ==
  LET k == Kind(meta, MAP[f]) IN
  CASE f = "title" /\ k = "title" -> Value("title", "baseName")
    [] f = "email" /\ k = "email" -> Value("email", "email")
    [] f = "models" /\ k = "multi_select" -> Value("multi_select", req[r].models)
    [] f = "status" /\ k = "select" -> Value("select", STATUS_DONE)
    [] f = "status" /\ k = "status" -> Value("status", STATUS_DONE)
    [] f = "watermark" /\ k = "checkbox" -> Value("checkbox", req[r].wm)
    [] f = "originalUrl" /\ k = "url" -> Value("url", Url(loc[r].origKey))
    [] f = "originalFiles" /\ k = "files" -> Value("files", Url(loc[r].origKey))
    [] f = "outputUrl" /\ k = "url" -> Value("url", Url(loc[r].outKey))
    [] f = "consentGallery" /\ k = "checkbox" -> Value("checkbox", "consentGallery")
    [] f = "consentTraining" /\ k = "checkbox" -> Value("checkbox", "consentTraining")
    [] f = "createdAt" /\ k = "date" -> Value("date", "nowIso")
    [] f = "createdAt" /\ k = "rich_text" -> Value("rich_text", "nowIso")
    [] f = "completedAt" /\ k = "date" -> Value("date", "nowIso")
    [] f = "completedAt" /\ k = "checkbox" -> Value("checkbox", TRUE)
    [] f = "completedAt" /\ k = "rich_text" -> Value("rich_text", "nowIso")
    [] f = "notes" /\ k = "rich_text" -> Value("rich_text", "Processed via API v1")
    [] OTHER -> NoValue

\* const props = {}; if (...) props[...] = ...  (adaptive handler)
AdaptiveProps(meta, r) ==
  LET written == {f \in DOMAIN MAP : AdaptiveValue(f, meta, r).shape # "none"}
  IN  [n \in {MAP[f] : f \in written} |->
         AdaptiveValue(FieldOf("adaptive", n), meta, r)]

\* const props = { [MAP.SUB.title]: ..., ... }  (two-ledger handler)
LedgerValue(f, r) ==
  CASE f = "title" -> Value("title", "baseName")
    [] f = "email" -> Value("email", "email")
    [] f = "models" -> Value("multi_select", req[r].models)
    [] f = "status" -> Value("select", STATUS_OPTIONS[1])
    [] f = "outputUrl" -> Value("url", Url(loc[r].outKey))
    [] f = "originalUrl" -> Value("url", Url(loc[r].origKey))
    [] f = "consentGallery" -> Value("checkbox", "consentGallery")
    [] f = "consentTraining" -> Value("checkbox", "consentTraining")
    [] f = "createdAt" -> Value("date", "nowIso")
    [] f = "completedAt" -> Value("date", "nowIso")
    [] f = "relationOriginal" -> Value("relation", loc[r].originalPageId)

LedgerProps(r) ==
  LET written == {f \in DOMAIN MAP_SUB :
                    f = "relationOriginal" => loc[r].originalPageId # 0}
  IN  [n \in {MAP_SUB[f] : f \in written} |->
         LedgerValue(FieldOf("ledger", n), r)]

\* properties of the Originals page (two-ledger handler)
OriginalsProps(r) ==
  [n \in Range(MAP_ORIG) \ {MAP_ORIG.relationSubmission} |->
     CASE n = MAP_ORIG.title -> Value("title", "baseName")
       [] n = MAP_ORIG.email -> Value("email", "email")
       [] n = MAP_ORIG.url -> Value("url", Url(loc[r].origKey))
       [] n = MAP_ORIG.s3key -> Value("rich_text", loc[r].origKey)
       [] n = MAP_ORIG.size -> Value("number", loc[r].origLen)
       [] n = MAP_ORIG.mimetype -> Value("rich_text", req[r].mimetype)
       [] n = MAP_ORIG.createdAt -> Value("date", "nowIso")
       [] n = MAP_ORIG.retentionDays -> Value("number", 30)
       [] n = MAP_ORIG.filePreview -> Value("files", Url(loc[r].origKey))]

\* properties of the Submissions page
SubmissionProps(r) ==
  IF cfg.variant = "adaptive" THEN AdaptiveProps(loc[r].meta, r)
  ELSE LedgerProps(r)

(***************************************************************************)
(* Record-store step: page calls                                           *)
(***************************************************************************)
\* notion.pages.create({ parent: { database_id: NOTION_ORIG_DB }, ... })
notionOriginalsCreate(r) ==
  /\ pc[r] = "origCreate"
  /\ LET props == OriginalsProps(r)
         create(ok) == [op |-> "create", db |-> "ORIG", props |-> props, ok |-> ok]
     IN \/ /\ pages' = Append(pages, [db |-> "ORIG", props |-> props])
           /\ loc' = [loc EXCEPT ![r].originalPageId = Len(pages) + 1]
           /\ Logged(r, create(TRUE))
        \/ /\ Logged(r, create(FALSE))
           /\ UNCHANGED <<pages, loc>>
  /\ pc' = [pc EXCEPT ![r] = SubEntry(cfg)]
  /\ UNCHANGED <<cfg, clock, db, store, req, resp>>

\* the record store validates a page-create against the database schema:
\* every property named must exist and the value must have its type's shape
Accepts(properties, props) ==
  \A n \in DOMAIN props :
    n \in DOMAIN properties /\ properties[n].type = props[n].shape

\* notion.pages.create({ parent: { database_id: NOTION_SUB_DB }, ... })
notionSubmissionsCreate(r) ==
  /\ pc[r] = "subCreate"
  /\ LET props == SubmissionProps(r)
         create(ok) == [op |-> "create", db |-> "SUB", props |-> props, ok |-> ok]
     IN \/ /\ Accepts(db, props)
           /\ pages' = Append(pages, [db |-> "SUB", props |-> props])
           /\ Logged(r, create(TRUE))
           /\ pc' = [pc EXCEPT ![r] =
                       IF cfg.variant = "ledger" /\ loc[r].originalPageId # 0
                       THEN "origUpdate" ELSE "respond"]
           /\ UNCHANGED resp
        \/ /\ Logged(r, create(FALSE))
           /\ RecorderCatch(r)
           /\ UNCHANGED pages
  /\ UNCHANGED <<cfg, clock, db, store, req, loc>>

\* notion.pages.update({ page_id: originalPageId, properties: { Submission } })
notionOriginalsUpdate(r) ==
  /\ pc[r] = "origUpdate"
  /\ LET id == loc[r].originalPageId
         n == MAP_ORIG.relationSubmission
         old == pages[id].props
         new == [m \in DOMAIN old \cup {n} |->
                   IF m = n THEN Value("relation", Len(pages)) ELSE old[m]]
         update(ok) == [op |-> "pageUpdate", page |-> id, ok |-> ok]
     IN \/ /\ pages' = [pages EXCEPT ![id].props = new]
           /\ Logged(r, update(TRUE))
        \/ /\ Logged(r, update(FALSE))
           /\ UNCHANGED pages
  /\ pc' = [pc EXCEPT ![r] = "respond"]
  /\ UNCHANGED <<cfg, clock, db, store, req, loc, resp>>

(***************************************************************************)
(* Specifications                                                          *)
(***************************************************************************)
\* one step of the handler serving request r
Step(r, Rand) ==
  \/ parseForm(r)
  \/ putOriginal(r, Rand)
  \/ transform(r)
  \/ putDerived(r, Rand)
  \/ notionOriginalsCreate(r)
  \/ getDbPropsMeta(r)
  \/ ensureStatusRetrieve(r)
  \/ ensureStatusUpdate(r)
  \/ ensureModelsRetrieve(r)
  \/ ensureModelsUpdate(r)
  \/ notionSubmissionsCreate(r)
  \/ notionOriginalsUpdate(r)
  \/ respond(r)

Next == \E r \in Reqs : Receive(r) \/ Step(r, {0})

\* one submission is served from arrival to response
Spec == Init /\ [][Next]_vars

\* two submissions have arrived together and are served concurrently: each
\* carries one transform identifier, the record store is configured
RaceModels == {<<"dehaze">>, <<"superres">>}

InitRace ==
  /\ cfg \in {c \in Configs : c.BUCKET /\ c.NOTION_TOKEN /\ c.NOTION_SUB_DB}
  /\ clock = 0
  /\ db \in {SchemaOver(cfg.variant, MappedNames(cfg.variant),
                        DeclaredKind(cfg.variant), s, m) :
               s \in StatusOptionSets, m \in ModelsOptionSets}
  /\ store = {}
  /\ pages = <<>>
  /\ pc = [r \in Reqs |-> "parseForm"]
  /\ req \in [Reqs -> {[method |-> "POST", files |-> OneFile, size |-> MAX_FILE_MB,
                        json |-> "list", image |-> Photo, max_width |-> NoText,
                        models |-> m, wm |-> FALSE, mimetype |-> "image/png",
                        filename |-> <<"a", ".", "A">>] :
                         m \in RaceModels}]
  /\ loc = [r \in Reqs |-> NoLoc]
  /\ log = [r \in Reqs |-> <<>>]
  /\ resp = [r \in Reqs |-> NoResp]

NextRace == \E r \in Reqs : Step(r, {0})

SpecRace == InitRace /\ [][NextRace]_vars

\* Date.now() advances by a millisecond
Tick ==
  /\ clock < MaxClock
  /\ clock' = clock + 1
  /\ UNCHANGED <<cfg, db, store, pages, pc, req, loc, log, resp>>

\* values crypto.randomBytes(3) returns: two of the 2^24
RandBytes == {0, 1}

\* file names of concurrent uploads: one base name under two extensions
KeyNames == {<<"a", ".", "A">>, <<"a", ".", "7">>}
Mimetypes == {"image/png", ""}      \* f.mimetype, '' when none is declared

\* two uploads have arrived together at a deployment without record store;
\* the clock may advance between any two steps and every put draws its own
\* random bytes
InitKeys ==
  /\ cfg \in {c \in Configs : c.BUCKET /\ ~c.NOTION_TOKEN /\ ~c.NOTION_SUB_DB
                                /\ ~c.NOTION_ORIG_DB}
  /\ clock = 0
  /\ db = EmptyFn
  /\ store = {}
  /\ pages = <<>>
  /\ pc = [r \in Reqs |-> "parseForm"]
  /\ \E m \in Mimetypes, n \in KeyNames :
       LET upload(mimetype, filename) ==
             [method |-> "POST", files |-> OneFile, size |-> MAX_FILE_MB,
              json |-> "list", image |-> Photo, max_width |-> NoText,
              models |-> <<>>, wm |-> FALSE, mimetype |-> mimetype,
              filename |-> filename]
       IN  req = [r \in Reqs |-> IF r = FirstReq THEN upload(m, n)
                                 ELSE upload("image/png", <<"a", ".", "A">>)]
  /\ loc = [r \in Reqs |-> NoLoc]
  /\ log = [r \in Reqs |-> <<>>]
  /\ resp = [r \in Reqs |-> NoResp]

NextKeys ==
  \/ Tick
  \/ \E r \in Reqs :
       \/ parseForm(r)
       \/ putOriginal(r, RandBytes)
       \/ transform(r)
       \/ putDerived(r, RandBytes)
       \/ respond(r)

SpecKeys == InitKeys /\ [][NextKeys]_vars

\* file names: k letters followed by up to MaxName characters of the
\* alphabet, so that names reach and pass the 64 characters of the cap
PadLengths == {0, BASE_MAX - 2, BASE_MAX - 1}
Padded(k, tail) == [i \in 1..k |-> "a"] \o tail
NameInputs ==
  {Padded(k, tail) : k \in PadLengths, tail \in SeqsUpTo(Alphabet, MaxName)}

\* one upload under any file name, at a deployment without record store
InitNames ==
  /\ cfg \in {c \in Configs : c.BUCKET /\ ~c.NOTION_TOKEN /\ ~c.NOTION_SUB_DB
                                /\ ~c.NOTION_ORIG_DB}
  /\ clock = 0
  /\ db = EmptyFn
  /\ store = {}
  /\ pages = <<>>
  /\ pc = [r \in Reqs |-> IF r = FirstReq THEN "parseForm" ELSE "idle"]
  /\ \E n \in NameInputs :
       req = [r \in Reqs |->
                IF r = FirstReq
                THEN [method |-> "POST", files |-> OneFile, size |-> MAX_FILE_MB,
                      json |-> "list", image |-> Photo, max_width |-> NoText,
                      models |-> <<>>, wm |-> FALSE, mimetype |-> "image/png",
                      filename |-> n]
                ELSE NoReq]
  /\ loc = [r \in Reqs |-> NoLoc]
  /\ log = [r \in Reqs |-> <<>>]
  /\ resp = [r \in Reqs |-> NoResp]

NextStorage ==
  \E r \in Reqs :
    \/ parseForm(r)
    \/ putOriginal(r, {0})
    \/ transform(r)
    \/ putDerived(r, {0})
    \/ respond(r)

SpecNames == InitNames /\ [][NextStorage]_vars

\* identifiers a request may list: the vocabulary and an unknown one
ChainIds == ToSet(Vocabulary) \cup {"not_a_real_model"}

\* one upload with any list of identifiers, at a deployment without record
\* store
InitChain ==
  /\ cfg \in {c \in Configs : c.BUCKET /\ ~c.NOTION_TOKEN /\ ~c.NOTION_SUB_DB
                                /\ ~c.NOTION_ORIG_DB}
  /\ clock = 0
  /\ db = EmptyFn
  /\ store = {}
  /\ pages = <<>>
  /\ pc = [r \in Reqs |-> IF r = FirstReq THEN "parseForm" ELSE "idle"]
  /\ \E models \in SeqsUpTo(ChainIds, MaxModels), wm \in BOOLEAN :
       req = [r \in Reqs |->
                IF r = FirstReq
                THEN [method |-> "POST", files |-> OneFile, size |-> MAX_FILE_MB,
                      json |-> "list", image |-> Photo, max_width |-> NoText,
                      models |-> models, wm |-> wm, mimetype |-> "image/png",
                      filename |-> <<"a", ".", "A">>]
                ELSE NoReq]
  /\ loc = [r \in Reqs |-> NoLoc]
  /\ log = [r \in Reqs |-> <<>>]
  /\ resp = [r \in Reqs |-> NoResp]

SpecChain == InitChain /\ [][NextStorage]_vars

\* the awaits of the record-store step
RecordAwaits ==
  {"origCreate", "getMeta", "ensStatus", "ensStatusUpd", "ensModels",
   "ensModelsUpd", "subCreate", "origUpdate"}

\* the record-store call the handler awaits never completes: the promise is
\* neither resolved nor rejected, and the handler stays at its await
Pending(r) ==
  /\ pc[r] \in RecordAwaits
  /\ pc' = [pc EXCEPT ![r] = "pending"]
  /\ UNCHANGED <<cfg, clock, db, store, pages, req, loc, log, resp>>

\* one upload has arrived at a deployment whose record store is configured;
\* every call that completes lets the handler go on (weak fairness of the
\* handler's steps), and a record-store call may never complete
InitLive ==
  /\ cfg \in {c \in Configs : c.BUCKET /\ c.NOTION_TOKEN /\ c.NOTION_SUB_DB}
  /\ clock = 0
  /\ db \in {SchemaOver(cfg.variant, MappedNames(cfg.variant),
                        DeclaredKind(cfg.variant), s, m) :
               s \in StatusOptionSets, m \in ModelsOptionSets}
  /\ store = {}
  /\ pages = <<>>
  /\ pc = [r \in Reqs |-> IF r = FirstReq THEN "parseForm" ELSE "idle"]
  /\ req = [r \in Reqs |->
              IF r = FirstReq
              THEN [method |-> "POST", files |-> OneFile, size |-> MAX_FILE_MB,
                    json |-> "list", image |-> Photo, max_width |-> NoText,
                    models |-> <<"dehaze">>, wm |-> FALSE,
                    mimetype |-> "image/png", filename |-> <<"a", ".", "A">>]
              ELSE NoReq]
  /\ loc = [r \in Reqs |-> NoLoc]
  /\ log = [r \in Reqs |-> <<>>]
  /\ resp = [r \in Reqs |-> NoResp]

NextLive == \E r \in Reqs : Step(r, {0}) \/ Pending(r)

SpecLive == InitLive /\ [][NextLive]_vars /\ WF_vars(NextLive)

\* one POST submission has arrived at a deployment of any handler, with or
\* without record store; every external call returns, with success or with
\* failure, so the handler takes its next step whenever it has one
InitTerm ==
  /\ cfg \in {c \in Configs : c.BUCKET}
  /\ clock = 0
  /\ db \in IF PersistOriginal(cfg)
            THEN {SchemaOver(cfg.variant, MappedNames(cfg.variant),
                             DeclaredKind(cfg.variant), s, <<>>) :
                    s \in StatusOptionSets}
            ELSE {EmptyFn}
  /\ store = {}
  /\ pages = <<>>
  /\ pc = [r \in Reqs |-> IF r = FirstReq THEN "parseForm" ELSE "idle"]
  /\ \E files \in {<<>>, OneFile}, size \in FileSizes :
       req = [r \in Reqs |->
                IF r = FirstReq
                THEN [method |-> "POST", files |-> files, size |-> size,
                      json |-> "list", image |-> Photo, max_width |-> NoText,
                      models |-> <<"dehaze">>, wm |-> FALSE,
                      mimetype |-> "image/png", filename |-> <<"a", ".", "A">>]
                ELSE NoReq]
  /\ loc = [r \in Reqs |-> NoLoc]
  /\ log = [r \in Reqs |-> <<>>]
  /\ resp = [r \in Reqs |-> NoResp]

SpecTerm == InitTerm /\ [][NextRace]_vars /\ WF_vars(NextRace)

\* values of a file field: nothing, an empty list, one file, a list of files
FieldValues ==
  {Nothing, Many(<<>>), One(File(<<"a">>)),
   Many(<<File(<<"A">>), File(<<"a">>)>>)}

\* one POST submission has arrived with any file fields and no `filename`
\* field, at a deployment of any handler, with or without record store
InitFiles ==
  /\ cfg \in {c \in Configs : c.BUCKET}
  /\ clock = 0
  /\ db \in IF PersistOriginal(cfg)
            THEN {SchemaOver(cfg.variant, MappedNames(cfg.variant),
                             DeclaredKind(cfg.variant), <<>>, <<>>)}
            ELSE {EmptyFn}
  /\ store = {}
  /\ pages = <<>>
  /\ pc = [r \in Reqs |-> IF r = FirstReq THEN "parseForm" ELSE "idle"]
  /\ \E files \in SeqsUpTo(FieldValues, MaxFields) :
       req = [r \in Reqs |->
                IF r = FirstReq
                THEN [method |-> "POST", files |-> files, size |-> MAX_FILE_MB,
                      json |-> "list", image |-> Photo, max_width |-> NoText,
                      models |-> <<"dehaze">>, wm |-> FALSE,
                      mimetype |-> "image/png", filename |-> <<>>]
                ELSE NoReq]
  /\ loc = [r \in Reqs |-> NoLoc]
  /\ log = [r \in Reqs |-> <<>>]
  /\ resp = [r \in Reqs |-> NoResp]

SpecFiles == InitFiles /\ [][NextRace]_vars

\* what the `models` field may hold, with the identifiers it names
JsonForms ==
  {[json |-> k, models |-> <<>>] :
     k \in {"absent", "malformed", "list", "null", "number", "object"}}
  \cup {[json |-> k, models |-> <<m>>] :
          k \in {"list", "string"}, m \in {"dehaze", "superres"}}

\* one POST submission has arrived with any `models` field, at a deployment
\* of the process handler (any revision, with or without record store) or
\* of the preview handler
InitJson ==
  /\ cfg \in {c \in Configs : c.BUCKET} \cup PreviewConfigs
  /\ clock = 0
  /\ db \in IF PersistOriginal(cfg)
            THEN {SchemaOver(cfg.variant, MappedNames(cfg.variant),
                             DeclaredKind(cfg.variant), <<>>, <<>>)}
            ELSE {EmptyFn}
  /\ store = {}
  /\ pages = <<>>
  /\ pc = [r \in Reqs |->
            IF r # FirstReq THEN "idle"
            ELSE IF cfg.variant \in PreviewVariants THEN "previewParse"
            ELSE "parseForm"]
  /\ \E f \in JsonForms, wm \in BOOLEAN :
       req = [r \in Reqs |->
                IF r = FirstReq
                THEN [method |-> "POST", files |-> OneFile, size |-> MAX_FILE_MB,
                      json |-> f.json, image |-> Photo, max_width |-> NoText,
                      models |-> f.models, wm |-> wm,
                      mimetype |-> "image/png", filename |-> <<"a", ".", "A">>]
                ELSE NoReq]
  /\ loc = [r \in Reqs |-> NoLoc]
  /\ log = [r \in Reqs |-> <<>>]
  /\ resp = [r \in Reqs |-> NoResp]

NextForm == \E r \in Reqs : Step(r, {0}) \/ previewParse(r) \/ previewRender(r)

SpecJson == InitJson /\ [][NextForm]_vars

\* sizes of the uploads: the 2000 px photograph, odd widths, a width above
\* the default preview ceiling, a banner and a thumbnail
Images ==
  {Photo, [width |-> 675, height |-> 901], [width |-> 1281, height |-> 961],
   [width |-> 1000, height |-> 50], [width |-> 100, height |-> 30]}

\* the max_width field: absent, a number, not a number
MaxWidths == {NoText, Digits(640), Letters}

\* the lists of identifiers of the uploads
ImageModels ==
  {<<>>, <<"superres">>, <<"dehaze">>, <<"superres", "dehaze">>,
   <<"stabilize", "color_restore">>}

\* one POST submission has arrived with an image of any of the sizes, at a
\* deployment of the process handler or of the preview handler
InitImage ==
  /\ cfg \in {c \in Configs : c.BUCKET} \cup PreviewConfigs
  /\ clock = 0
  /\ db \in IF PersistOriginal(cfg)
            THEN {SchemaOver(cfg.variant, MappedNames(cfg.variant),
                             DeclaredKind(cfg.variant), <<>>, <<>>)}
            ELSE {EmptyFn}
  /\ store = {}
  /\ pages = <<>>
  /\ pc = [r \in Reqs |->
            IF r # FirstReq THEN "idle"
            ELSE IF cfg.variant \in PreviewVariants THEN "previewParse"
            ELSE "parseForm"]
  /\ \E im \in Images, mw \in MaxWidths, models \in ImageModels,
        wm \in BOOLEAN :
       req = [r \in Reqs |->
                IF r = FirstReq
                THEN [method |-> "POST", files |-> OneFile, size |-> MAX_FILE_MB,
                      json |-> "list", image |-> im, max_width |-> mw,
                      models |-> models, wm |-> wm,
                      mimetype |-> "image/png", filename |-> <<"a", ".", "A">>]
                ELSE NoReq]
  /\ loc = [r \in Reqs |-> NoLoc]
  /\ log = [r \in Reqs |-> <<>>]
  /\ resp = [r \in Reqs |-> NoResp]

SpecImage == InitImage /\ [][NextForm]_vars

(***************************************************************************)
(* Reading the call log of a request                                       *)
(***************************************************************************)
Idx(r) == 1..Len(log[r])
RecordOps == {"retrieve", "update", "create", "pageUpdate"}
IsPut(e, role) == e.op = "put" /\ e.role = role
IsRecordCall(e) == e.op \in RecordOps
PutOk(r, role) == \E i \in Idx(r) : IsPut(log[r][i], role) /\ log[r][i].ok

\* the record store is configured for this deployment
RecorderConfigured ==
  cfg.NOTION_TOKEN /\
  (cfg.NOTION_SUB_DB \/ (cfg.variant = "ledger" /\ cfg.NOTION_ORIG_DB))

\* position of a logged call in the pipeline
Rank(e) ==
  CASE e.op = "parse" -> 0
    [] e.op = "readFile" -> 1
    [] e.op = "put" -> IF e.role = "originals" THEN 1 ELSE 3
    [] e.op = "transform" -> 2
    [] e.op \in RecordOps -> 4
    [] e.op = "respond" -> 5

(***************************************************************************)
(* Properties                                                              *)
(***************************************************************************)

\* C1: once the original put and the derived put have both succeeded, the
\* request can only end with the 200 response, and its url/key/bytes/original
\* fields are those of the two puts, whatever record-store calls failed.
C1_RecorderFailuresAbsorbed ==
  \A r \in Reqs : \A i, j \in Idx(r) :
    ( /\ IsPut(log[r][i], "originals") /\ log[r][i].ok
      /\ IsPut(log[r][j], "submissions") /\ log[r][j].ok
      /\ pc[r] = "done" )
    => /\ resp[r].status = 200
       /\ resp[r].key = log[r][j].key
       /\ resp[r].url = Url(log[r][j].key)
       /\ resp[r].bytes = log[r][j].bytes
       /\ resp[r].original =
            [url |-> Url(log[r][i].key), key |-> log[r][i].key,
             bytes |-> log[r][i].bytes, mimetype |-> req[r].mimetype]

\* a request answered 200 although two record-store calls failed
C1_Witness ==
  \E r \in Reqs :
    /\ pc[r] = "done" /\ resp[r].status = 200
    /\ Cardinality({i \in Idx(r) : IsRecordCall(log[r][i]) /\ ~log[r][i].ok}) >= 2

\* C2: a failure of form parsing, of the original put (or the read before it),
\* of the transform/encode step or of the derived put is the last thing the
\* request does, and the request ends with an error response, never 200.
C2_EarlyFailureIsTerminal ==
  \A r \in Reqs : \A i \in Idx(r) :
    (log[r][i].op \in {"parse", "readFile", "put", "transform"} /\ ~log[r][i].ok)
    => /\ i = Len(log[r])
       /\ pc[r] = "done"
       /\ resp[r].status \in {403, 413, 415, 500}

\* the derived put was refused and the request ended with 403
C2_Witness ==
  \E r \in Reqs :
    /\ Len(log[r]) > 0
    /\ IsPut(log[r][Len(log[r])], "submissions") /\ ~log[r][Len(log[r])].ok
    /\ resp[r].status = 403

\* C3: the calls of one submission are made in the order original put,
\* transform, derived put, record-store calls, response; a step is logged
\* only after the one before it has succeeded (the transform follows the
\* form parsing where the handler persists no original), no step but the
\* record-store calls appears twice, and the 200 response follows a
\* record-store call whenever the record store is configured.
C3_StepOrder ==
  \A r \in Reqs :
    /\ \A i, j \in Idx(r) :
         i < j => /\ Rank(log[r][i]) <= Rank(log[r][j])
                  /\ Rank(log[r][i]) = Rank(log[r][j]) => Rank(log[r][i]) = 4
    /\ \A j \in Idx(r) :
         /\ (j > 1 /\ Rank(log[r][j]) \in 1..3) =>
               /\ Rank(log[r][j - 1]) =
                    IF Rank(log[r][j]) = 2 /\ ~PersistOriginal(cfg)
                    THEN 0 ELSE Rank(log[r][j]) - 1
               /\ log[r][j - 1].ok
         /\ (j > 1 /\ Rank(log[r][j]) \in 4..5) => Rank(log[r][j - 1]) \in 3..4
         /\ Rank(log[r][j]) = 4 => PutOk(r, "originals") /\ PutOk(r, "submissions")
         /\ Rank(log[r][j]) = 3 => PersistOriginal(cfg) = PutOk(r, "originals")
         /\ Rank(log[r][j]) = 5 =>
               /\ j > 1
               /\ RecorderConfigured => \E i \in 1..(j - 1) : IsRecordCall(log[r][i])

\* a submission that went through every step, record-store calls included
C3_Witness ==
  \E r \in Reqs :
    /\ pc[r] = "done" /\ resp[r].status = 200
    /\ \E i \in Idx(r) : log[r][i].op = "create" /\ log[r][i].ok
    /\ \E i \in Idx(r) : log[r][i].op = "update" /\ log[r][i].ok

\* C4: an upload above MAX_FILE_MB ends with 413 'file too large' and
\* limit_mb, and no put and no record-store call is made for it.
C4_OversizeIs413 ==
  \A r \in Reqs :
    (req[r].size > MAX_FILE_MB /\ pc[r] = "done" /\ Len(log[r]) > 0)
    => /\ resp[r].status = 413
       /\ resp[r].error = "file too large"
       /\ resp[r].limit_mb = MAX_FILE_MB
       /\ \A i \in Idx(r) : log[r][i].op # "put" /\ ~IsRecordCall(log[r][i])

\* C5: every Submissions page-create names only properties of the live
\* schema and gives each the shape of its declared type.
C5_PropsFollowSnapshot ==
  \A r \in Reqs : \A i \in Idx(r) :
    (log[r][i].op = "create" /\ log[r][i].db = "SUB")
    => \A n \in DOMAIN log[r][i].props :
         /\ n \in DOMAIN db
         /\ log[r][i].props[n].shape = db[n].type

\* C6: in the schema-adaptive handler a failed schema retrieve is followed
\* by no schema update and no page-create, and the response is still 200.
C6_UnreachableSchemaAbandons ==
  \A r \in Reqs :
    ( /\ cfg.variant = "adaptive"
      /\ \E i \in Idx(r) : /\ log[r][i].op = "retrieve"
                           /\ log[r][i].for = "meta" /\ ~log[r][i].ok )
    => /\ \A j \in Idx(r) : log[r][j].op \notin {"update", "create"}
       /\ pc[r] = "done" => resp[r].status = 200

\* C7: in the schema-adaptive handler, when the live schema holds none of
\* the mapped property names, no schema update is made, every page-create
\* carries an empty property set, and a submission whose puts succeeded
\* ends with 200 after the page-create was issued.
C7_NoMappedNameInSchema ==
  \A r \in Reqs :
    (cfg.variant = "adaptive" /\ DOMAIN db \cap Range(MAP) = {})
    => /\ \A i \in Idx(r) :
            /\ log[r][i].op # "update"
            /\ log[r][i].op = "create" => DOMAIN log[r][i].props = {}
       /\ (pc[r] = "done" /\ PutOk(r, "submissions")) =>
            /\ resp[r].status = 200
            /\ RecorderConfigured => \E i \in Idx(r) : log[r][i].op = "create"

\* the page-create with no property succeeded and the request ended with 200
C7_Witness ==
  \E r \in Reqs :
    /\ cfg.variant = "adaptive" /\ DOMAIN db \cap Range(MAP) = {}
    /\ pc[r] = "done" /\ resp[r].status = 200
    /\ \E i \in Idx(r) : /\ log[r][i].op = "retrieve" /\ log[r][i].ok
    /\ \E i \in Idx(r) : /\ log[r][i].op = "create" /\ log[r][i].ok
                         /\ DOMAIN log[r][i].props = {}

(***************************************************************************)
(* Option extension, as seen in the call log                               *)
(***************************************************************************)
\* log[r][i] is a successful retrieve made by the extension of `what` that
\* found the property n with type `type`
Observed(r, i, what, n, type) ==
  /\ log[r][i].op = "retrieve" /\ log[r][i].for = what /\ log[r][i].ok
  /\ n \in DOMAIN log[r][i].seen
  /\ log[r][i].seen[n].type = type

\* positions of the schema updates of property n
UpdatesOf(r, n) == {j \in Idx(r) : log[r][j].op = "update" /\ log[r][j].prop = n}

\* every Submissions page-create of r comes after position j
CreateAfter(r, j) ==
  \A k \in Idx(r) :
    (log[r][k].op = "create" /\ log[r][k].db = "SUB") => j < k

After(s, n) == SubSeq(s, n + 1, Len(s))

ModelsIsMulti ==
  /\ ModelsName(cfg.variant) \in DOMAIN db
  /\ db[ModelsName(cfg.variant)].type = "multi_select"

\* log[r][k] is a Submissions page-create that writes the models of r
WritesModels(r, k) ==
  /\ log[r][k].op = "create" /\ log[r][k].db = "SUB"
  /\ ModelsName(cfg.variant) \in DOMAIN log[r][k].props
  /\ log[r][k].props[ModelsName(cfg.variant)].shape = "multi_select"

\* the models extension of one submission, for the identifiers in `wanted`:
\* every update follows a retrieve and lists the observed options followed by
\* exactly the wanted identifiers that were not among them; nothing wanted is
\* lacking when the page-create writes the models; no observed option is
\* dropped; nothing missing means no update
ModelsExtension(r, wanted) ==
  LET n == ModelsName(cfg.variant) IN
  /\ \A j \in UpdatesOf(r, n) :
       /\ j > 1 /\ Observed(r, j - 1, "models", n, "multi_select")
       /\ LET seen == log[r][j - 1].seen[n].options
              sent == log[r][j].options
          IN  /\ Len(sent) > Len(seen)
              /\ SubSeq(sent, 1, Len(seen)) = seen
              /\ ToSet(After(sent, Len(seen))) = wanted \ ToSet(seen)
  /\ \A k \in Idx(r) :
       WritesModels(r, k) => wanted \subseteq ToSet(db[n].options)
  /\ \A i \in Idx(r) :
       Observed(r, i, "models", n, "multi_select") =>
         /\ ToSet(log[r][i].seen[n].options) \subseteq ToSet(db[n].options)
         /\ wanted \subseteq ToSet(log[r][i].seen[n].options)
              => UpdatesOf(r, n) = {}

\* C9 as stated: the extension covers every requested identifier.
C9_AsStated ==
  \A r \in Reqs : ModelsIsMulti => ModelsExtension(r, ToSet(req[r].models))

\* C9 (amended): the extension covers every non-empty requested identifier;
\* an empty identifier is written to the page but never added as an option.
C9_ModelsOptionExtension ==
  \A r \in Reqs : ModelsIsMulti => ModelsExtension(r, ToSet(req[r].models) \ {""})

\* an update kept the existing option, added the missing identifier, and the
\* page-create then wrote the models
C9_Witness ==
  \E r \in Reqs : \E j \in UpdatesOf(r, ModelsName(cfg.variant)) :
    /\ ModelsIsMulti
    /\ log[r][j].ok
    /\ log[r][j].options = <<"dehaze", "superres">>
    /\ log[r][j - 1].seen[ModelsName(cfg.variant)].options = <<"dehaze">>
    /\ \E k \in Idx(r) : k > j /\ WritesModels(r, k)

\* C10: once two concurrent submissions have each completed a schema update
\* introducing a different new models option, the option list holds both
\* submissions' identifiers and every option either of them observed.
C10_NoOptionLost ==
  LET n == ModelsName(cfg.variant) IN
  ( /\ req["r1"].models # req["r2"].models
    /\ \A r \in Reqs : \E j \in UpdatesOf(r, n) : log[r][j].ok )
  => \A r \in Reqs :
       /\ ToSet(req[r].models) \subseteq ToSet(db[n].options)
       /\ \A i \in Idx(r) :
            Observed(r, i, "models", n, "multi_select") =>
              ToSet(log[r][i].seen[n].options) \subseteq ToSet(db[n].options)

\* C11: in the two-ledger handler every Originals page-create precedes the
\* Submissions page-create; the Submissions page-create names the linking
\* property, with the id of the Originals page, when that page was created
\* and the Submissions schema exposes the property; when the page was not
\* created or the schema lacks the property, the page-create names no linking
\* property, so that the record store has no missing property to reject.
\* Stated for the schemas that hold every other property the handler writes.
C11_LinkedOrIndependent ==
  \A r \in Reqs : \A k \in Idx(r) :
    (cfg.variant = "ledger" /\ log[r][k].op = "create" /\ log[r][k].db = "SUB")
    => LET rel == MAP_SUB.relationOriginal
           exposed == rel \in DOMAIN db /\ db[rel].type = "relation"
           origs == {i \in Idx(r) : log[r][i].op = "create" /\ log[r][i].db = "ORIG"}
           created == \E i \in origs : log[r][i].ok
           props == log[r][k].props
           linked == rel \in DOMAIN props
           others == [n \in DOMAIN props \ {rel} |-> props[n]]
       IN  Accepts(db, others) =>
           /\ \A i \in origs : i < k
           /\ (created /\ exposed) =>
                 linked /\ props[rel].v = loc[r].originalPageId
           /\ (~created \/ ~exposed) => ~linked

\* C12: the original object is written only by a handler whose policy is to
\* persist the original.  Without the policy no original put (nor the file
\* read before it) is made, no originals key is stored, and the transform
\* follows the form parsing directly; with the policy, the original put has
\* been acknowledged before the transform starts.
C12_OriginalOnlyUnderPolicy ==
  \A r \in Reqs :
    /\ ~PersistOriginal(cfg) =>
         /\ \A i \in Idx(r) :
              /\ log[r][i].op # "readFile"
              /\ ~IsPut(log[r][i], "originals")
              /\ log[r][i].op = "transform" =>
                   i > 1 /\ log[r][i - 1].op = "parse" /\ log[r][i - 1].ok
         /\ \A k \in store : k.role # "originals"
         /\ loc[r].origKey = NoKey
    /\ PersistOriginal(cfg) =>
         \A i \in Idx(r) :
           log[r][i].op = "transform" =>
             /\ i > 1 /\ IsPut(log[r][i - 1], "originals") /\ log[r][i - 1].ok
             /\ log[r][i - 1].key \in store

\* a derived-only handler answered 200 having stored the derived artifact alone
C12_Witness ==
  \E r \in Reqs :
    /\ ~PersistOriginal(cfg)
    /\ pc[r] = "done" /\ resp[r].status = 200
    /\ \E i \in Idx(r) : log[r][i].op = "transform" /\ log[r][i].ok
    /\ store = {loc[r].outKey}

\* log[r][j] is an acknowledged put of `role` whose key, payload length and
\* address the response entry e reports
Reports(r, j, role, e) ==
  /\ IsPut(log[r][j], role) /\ log[r][j].ok
  /\ log[r][j].key \in store
  /\ e.key = log[r][j].key
  /\ e.bytes = log[r][j].bytes
  /\ e.url = <<"cdnBase", "/", log[r][j].key>>

\* C13: every 200 response reports the key of the acknowledged derived put of
\* the same request, the length of the payload put under it, and the url
\* cdnBase + '/' + key; where the handler persists the original, the original
\* entry reports the same three for the acknowledged original put, and the
\* content type the upload declared.
C13_ResponseReportsPuts ==
  \A r \in Reqs :
    (pc[r] = "done" /\ resp[r].status = 200) =>
      /\ \E j \in Idx(r) : Reports(r, j, "submissions", resp[r])
      /\ PersistOriginal(cfg) =>
           /\ \E i \in Idx(r) : Reports(r, i, "originals", resp[r].original)
           /\ resp[r].original.mimetype = req[r].mimetype

\* a 200 response with both entries, for an upload that declared no content
\* type and whose two keys were derived a millisecond apart
C13_Witness ==
  \E r \in Reqs :
    /\ pc[r] = "done" /\ resp[r].status = 200 /\ PersistOriginal(cfg)
    /\ req[r].mimetype = ""
    /\ resp[r].original.key.ms # resp[r].key.ms
    /\ resp[r].original.bytes # resp[r].bytes

\* C14: the storage keys of two different submissions are never equal,
\* whatever their names, roles and clock readings and however the two
\* requests interleave.
C14_KeysNeverEqual ==
  \A r1, r2 \in Reqs : \A i \in Idx(r1), j \in Idx(r2) :
    (r1 # r2 /\ log[r1][i].op = "put" /\ log[r2][j].op = "put")
    => log[r1][i].key # log[r2][j].key

\* C15: the id segment of a submission (clock reading and random bytes) is
\* one value: the original key and the derived key of a submission embed the
\* same clock reading and the same random bytes.
C15_OneIdPerSubmission ==
  \A r \in Reqs :
    (loc[r].origKey # NoKey /\ loc[r].outKey # NoKey)
    => /\ loc[r].origKey.ms = loc[r].outKey.ms
       /\ loc[r].origKey.rnd = loc[r].outKey.rnd

\* [A-Za-z0-9_-]{1,64}
Safe(y) ==
  /\ Len(y) \in 1..BASE_MAX
  /\ \A i \in 1..Len(y) : y[i] \in WordChars \cup {"-"}

\* C16: the base name of every storage key is a value of sanitizeBase, for
\* each sanitizeBase of the source and every file name: it is 1 to 64
\* characters of [A-Za-z0-9_-], and sanitizing it again returns it unchanged.
C16_SanitizeIdempotentSafe ==
  \A r \in Reqs :
    loc[r].outKey # NoKey =>
      LET name == loc[r].outKey.name
          base == SubSeq(name, 1, Len(name) - Len(out_jpg))
      IN  /\ base = BaseName(cfg, req[r].filename)
          /\ Safe(base)
          /\ BaseName(cfg, base) = base

\* the steps the pipeline of request r ran
Ran(r, i) == log[r][i].op = "transform" /\ log[r][i].ok

\* position of a sharp call in a chain, 0 when it was not made
At(steps, call) ==
  IF call \in ToSet(steps) THEN CHOOSE i \in 1..Len(steps) : steps[i] = call ELSE 0

\* C17: the chain the pipeline ran is the chain of every request list with
\* the same set of identifiers; in it the calls of color_restore, dehaze,
\* stabilize and superres come in that order, each at most once, and the
\* resize of superres is the last effect.
C17_ChainDependsOnSetOnly ==
  \A r \in Reqs : \A i \in Idx(r) :
    Ran(r, i) =>
      LET steps == log[r][i].steps
          order == <<"modulate 1.12", "linear 1.06 -4", "sharpen 1.5",
                     "sharpen 0.6", "resize x1.5">>
      IN  /\ \A l \in SeqsUpTo(ChainIds, MaxModels + 1) :
                ToSet(l) = ToSet(req[r].models) =>
                  Chain(cfg, l, req[r].wm) = steps
          /\ \A a, b \in 1..Len(order) :
                (a < b /\ At(steps, order[a]) > 0 /\ At(steps, order[b]) > 0)
                => At(steps, order[a]) < At(steps, order[b])
          /\ \A a, b \in 1..Len(steps) : steps[a] = steps[b] => a = b

\* superres was requested first and dehaze second; the sharpen pass ran
\* before the resize
C17_Witness ==
  \E r \in Reqs : \E i \in Idx(r) :
    /\ Ran(r, i)
    /\ req[r].models = <<"superres", "dehaze">>
    /\ At(log[r][i].steps, "sharpen 1.5") > 0
    /\ At(log[r][i].steps, "sharpen 1.5") < At(log[r][i].steps, "resize x1.5")

\* the effects whose sharp calls appear in a chain
EffectsIn(steps) ==
  {e \in ToSet(Vocabulary) :
     CASE e = "color_restore" ->
            {"modulate 1.12", "linear 1.06 -4"} \cap ToSet(steps) # {}
       [] e = "dehaze" -> "sharpen 1.5" \in ToSet(steps)
       [] e = "stabilize" -> "sharpen 0.6" \in ToSet(steps)
       [] e = "superres" -> "resize x1.5" \in ToSet(steps)}

\* C18: the effects the pipeline ran are the requested identifiers that
\* belong to the vocabulary, no other; a list of unknown identifiers runs
\* the steps of the empty list, and a request is refused only when one of its
\* calls (form parsing, file read, put, pipeline) failed, never for its list.
C18_OnlyRequestedKnownEffects ==
  \A r \in Reqs : \A i \in Idx(r) :
    /\ Ran(r, i) =>
         /\ EffectsIn(log[r][i].steps) = ToSet(req[r].models) \cap ToSet(Vocabulary)
         /\ ToSet(req[r].models) \cap ToSet(Vocabulary) = {} =>
              log[r][i].steps = Chain(cfg, <<>>, req[r].wm)
    /\ (pc[r] = "done" /\ resp[r].status # 200) =>
         \E j \in Idx(r) : log[r][j].op # "respond" /\ ~log[r][j].ok

\* a list holding only an unknown identifier went through the pipeline with
\* no effect applied, and the request was answered 200
C18_Witness ==
  \E r \in Reqs : \E i \in Idx(r) :
    /\ Ran(r, i)
    /\ req[r].models = <<"not_a_real_model">>
    /\ EffectsIn(log[r][i].steps) = {}
    /\ pc[r] = "done" /\ resp[r].status = 200

\* C19: a failed form parsing, file read, put or pipeline ends the request
\* with the category of its cause: 413 with limit_mb for the size limit, 403
\* for a storage authorization failure, 415 for an unsupported or corrupt
\* image, 500 for anything else.
C19_FailureCategory ==
  \A r \in Reqs : \A i \in Idx(r) :
    (log[r][i].op \in {"parse", "readFile", "put", "transform"} /\ ~log[r][i].ok)
    => /\ pc[r] = "done"
       /\ log[r][i].cause = "size" =>
            resp[r].status = 413 /\ resp[r].limit_mb = MAX_FILE_MB
       /\ log[r][i].cause = "auth" => resp[r].status = 403
       /\ log[r][i].cause = "format" => resp[r].status = 415
       /\ log[r][i].cause = "other" => resp[r].status = 500

\* C20: once the derived put of a submission is acknowledged, its 200
\* response is eventually sent, whether or not the record-store calls of the
\* submission complete.
C20_ResponseNotBlocked ==
  PutOk(FirstReq, "submissions") ~> (resp[FirstReq].status = 200)

\* the calls of request r that satisfy P
CallsWhere(r, P(_)) == {i \in Idx(r) : P(log[r][i])}

\* C22: no external call is retried.  Within one submission at most one put
\* is issued for the original key, at most one for the derived key and at
\* most one page-create per ledger, whatever the outcome of each call; a call
\* that failed is not followed by another call of the same kind.
C22_NoRetry ==
  \A r \in Reqs :
    LET putOrig(e) == IsPut(e, "originals")
        putOut(e) == IsPut(e, "submissions")
        createOrig(e) == e.op = "create" /\ e.db = "ORIG"
        createSub(e) == e.op = "create" /\ e.db = "SUB"
    IN  /\ Cardinality(CallsWhere(r, putOrig)) <= 1
        /\ Cardinality(CallsWhere(r, putOut)) <= 1
        /\ Cardinality(CallsWhere(r, createOrig)) <= 1
        /\ Cardinality(CallsWhere(r, createSub)) <= 1
        /\ \A i \in Idx(r) :
              (log[r][i].op \in {"parse", "readFile", "put", "transform"}
                 /\ ~log[r][i].ok)
              => i = Len(log[r])

\* both page-creates of a submission failed and the request ended, each
\* having been issued once
C22_Witness ==
  \E r \in Reqs :
    /\ pc[r] = "done"
    /\ \E i, j \in Idx(r) :
         /\ log[r][i].op = "create" /\ log[r][i].db = "ORIG" /\ ~log[r][i].ok
         /\ log[r][j].op = "create" /\ log[r][j].db = "SUB" /\ ~log[r][j].ok

\* the response of request r is an error response
ErrorSent(r) == pc[r] = "done" /\ resp[r].status \in 400..599

\* C28: when the handler ends with an error response, no derived artifact
\* has been written to the object store and no record-store call has been
\* issued for that request; the only object the request can have written is
\* the original.
C28_ErrorMeansNoDerived ==
  \A r \in Reqs :
    ErrorSent(r) =>
      /\ ~PutOk(r, "submissions")
      /\ loc[r].outKey = NoKey
      /\ \A i \in Idx(r) : ~IsRecordCall(log[r][i])
      /\ \A i \in Idx(r) :
            (log[r][i].op = "put" /\ log[r][i].key \in store)
            => log[r][i].key.role = "originals"

\* the pipeline refused the image after the original had been stored: the
\* request ended with 415 and the store holds the original alone
C28_Witness ==
  \E r \in Reqs :
    /\ ErrorSent(r) /\ resp[r].status = 415
    /\ loc[r].origKey # NoKey
    /\ store = {loc[r].origKey}

\* log[r][i] is a call of an option extension (the schema retrieve or the
\* schema update of the status or of the models extension) that threw
ExtensionFailed(r, i) ==
  \/ log[r][i].op = "update" /\ ~log[r][i].ok
  \/ /\ log[r][i].op = "retrieve" /\ ~log[r][i].ok
     /\ log[r][i].for \in {"status", "models"}

\* C29: when a call of an option extension throws, the Submissions
\* page-create is never issued for that submission, no record-store call
\* follows the one that threw, and the response is still the 200 success.
C29_ExtensionFailureSkipsCreate ==
  \A r \in Reqs : \A i \in Idx(r) :
    ExtensionFailed(r, i) =>
      /\ \A k \in Idx(r) : ~(log[r][k].op = "create" /\ log[r][k].db = "SUB")
      /\ \A k \in Idx(r) : k > i => ~IsRecordCall(log[r][k])
      /\ pc[r] \in {"respond", "done"}
      /\ pc[r] = "done" => resp[r].status = 200

\* the update of the models extension threw after the status extension had
\* succeeded, and the request was answered 200 with no Submissions page
C29_Witness ==
  \E r \in Reqs : \E i \in Idx(r) :
    /\ ExtensionFailed(r, i)
    /\ log[r][i].op = "update" /\ log[r][i].prop = ModelsName(cfg.variant)
    /\ \E k \in 1..(i - 1) : log[r][k].op = "update" /\ log[r][k].ok
    /\ pc[r] = "done" /\ resp[r].status = 200
    /\ \A k \in 1..Len(pages) : pages[k].db # "SUB"

\* C21: when every external call returns, every started POST submission
\* reaches its end and sends exactly one response, the 200 success or one
\* error response: a request has ended exactly when its response is sent, a
\* response once sent is never followed by another, and a started POST
\* submission eventually ends.
C21_ExactlyOneResponse ==
  /\ [](\A r \in Reqs :
         /\ (pc[r] = "done") <=> (resp[r] # NoResp)
         /\ (pc[r] = "done" /\ req[r].method = "POST") =>
               resp[r].status \in {200, 400, 403, 413, 415, 500})
  /\ [][\A r \in Reqs : resp[r] # NoResp => resp'[r] = resp[r]]_vars
  /\ (req[FirstReq].method = "POST") ~> (pc[FirstReq] = "done")

\* a POST submission went through the record-store step and ended with its
\* one response
C21_Witness ==
  \E r \in Reqs :
    /\ req[r].method = "POST" /\ pc[r] = "done" /\ resp[r].status = 200
    /\ \E i \in Idx(r) : IsRecordCall(log[r][i])

\* the first field of the form that holds a file, 0 when none does
FirstNonEmpty(files) ==
  LET at == {i \in 1..Len(files) : files[i].items # <<>>}
  IN  IF at = {} THEN 0 ELSE CHOOSE i \in at : \A j \in at : i <= j

\* C24: a parsed form with no non-empty file field ends the request with
\* 400 'no file received', and no put and no record-store call is issued for
\* it; with several file fields, the file processed (the one the storage keys
\* are named after) is the first file of the first non-empty field.
C24_NoFileIs400 ==
  \A r \in Reqs :
    LET files == req[r].files
        k == FirstNonEmpty(files)
        parsed == \E i \in Idx(r) : log[r][i].op = "parse" /\ log[r][i].ok
    IN  /\ (k = 0 /\ parsed) =>
             /\ pc[r] = "done"
             /\ resp[r] = [status |-> 400, error |-> "no file received"]
             /\ Len(log[r]) = 1
             /\ store = {} /\ pages = <<>>
        /\ k > 0 =>
             /\ resp[r].status # 400
             /\ \A i \in Idx(r) :
                  log[r][i].op = "put" =>
                    LET base == BaseName(cfg, files[k].items[1].originalFilename)
                    IN  SubSeq(log[r][i].key.name, 1, Len(base)) = base

\* the first field was an empty list and the second a list of two files:
\* the request was answered 200 with keys named after the first of the two
C24_Witness ==
  \E r \in Reqs :
    /\ req[r].files = <<Many(<<>>), Many(<<File(<<"A">>), File(<<"a">>)>>)>>
    /\ pc[r] = "done" /\ resp[r].status = 200
    /\ resp[r].key.name = <<"A">> \o out_jpg

\* request r was refused although none of its calls failed
RefusedForNothing(r) ==
  /\ pc[r] = "done" /\ resp[r].status # 200
  /\ \A j \in Idx(r) : log[r][j].op = "respond" \/ log[r][j].ok

\* C23: a `models` field that is no parseable JSON is treated as the empty
\* list and does not fail the request, in the process handler and in the
\* preview handler: the pipeline runs the steps it runs for models=[], and
\* the request is refused only when one of its calls failed.
C23_MalformedIsEmptyList ==
  \A r \in Reqs :
    req[r].json = "malformed" =>
      /\ \A i \in Idx(r) :
            Ran(r, i) =>
              log[r][i].steps =
                IF cfg.variant \in PreviewVariants
                THEN PreviewChain([req[r] EXCEPT !.json = "list", !.models = <<>>])
                ELSE Chain(cfg, <<>>, req[r].wm)
      /\ ~RefusedForNothing(r)

\* C30: in the handlers that persist the original, a `models` field holding
\* valid JSON that is no list (null, a number, a string, an object) is
\* handled like the empty list: the pipeline runs the steps of models=[], and
\* the transform step never throws on `models` once the original is stored.
C30_ModelsAlwaysList ==
  \A r \in Reqs :
    (PersistOriginal(cfg) /\ req[r].json \in {"null", "number", "string", "object"})
    => \A i \in Idx(r) :
         log[r][i].op = "transform" =>
           /\ log[r][i].ok => log[r][i].steps = Chain(cfg, <<>>, req[r].wm)
           /\ (~log[r][i].ok /\ PutOk(r, "originals")) => log[r][i].cause # "type"

\* the sharp calls that change the pixels of an effect, in either handler
EffectCalls ==
  {"modulate 1.12", "linear 1.06 -4", "sharpen 1.5", "sharpen 0.6",
   "resize x1.5", "modulate 1.1", "linear 1.05 -5", "sharpen 1.2",
   "sharpen 0.5"}

\* positions of the calls of a set in a chain
Where(steps, calls) == {k \in 1..Len(steps) : steps[k] \in calls}

\* C25: in every chain the pipeline ran, the orientation call is made once
\* and is the first call; in the preview handler the downscale to the maximum
\* width is made exactly when the width of the upload exceeds it, as the
\* second call and before every effect; the watermark overlay is made at most
\* once, always when the handler has the step and wm is set, and after every
\* effect; the JPEG encode is made once and is the last call.
C25_PipelineOrder ==
  \A r \in Reqs : \A i \in Idx(r) :
    Ran(r, i) =>
      LET steps == log[r][i].steps
          effects == Where(steps, EffectCalls)
          down == Where(steps, {"resize max_width"})
          mark == Where(steps, {"composite"})
      IN  /\ Where(steps, {"rotate"}) = {1}
          /\ Where(steps, {"jpeg 92", "jpeg 90"}) = {Len(steps)}
          /\ down = IF cfg.variant \in PreviewVariants /\ Exceeds(req[r])
                    THEN {2} ELSE {}
          /\ \A d \in down, e \in effects : d < e
          /\ Cardinality(mark) <= 1
          /\ (PersistOriginal(cfg) /\ req[r].wm) => mark # {}
          /\ \A m \in mark, e \in effects : e < m
          /\ \A m \in mark : m < Len(steps)

\* a preview ran that downscaled an upload wider than the ceiling and then
\* sharpened it
C25_Witness ==
  \E r \in Reqs : \E i \in Idx(r) :
    /\ Ran(r, i)
    /\ cfg.variant = "preview"
    /\ req[r].image.width > DEFAULT_MAX_WIDTH
    /\ At(log[r][i].steps, "resize max_width") = 2
    /\ At(log[r][i].steps, "sharpen 1.2") = 3

C27_WatermarkBar ==
  \A r \in Reqs : \A i \in Idx(r) :
    (Ran(r, i) /\ "composite" \in ToSet(log[r][i].steps)) =>
      LET w == req[r].image.width
          bar == log[r][i].bar
          out == log[r][i].out
      IN  /\ bar.height >= 40
          /\ bar.height > 40 => (100 * bar.height - 6 * w) \in -49..50
          /\ bar.height = 40 => 6 * w < 4050
          /\ bar.font >= 16
          /\ bar.font > 16 => (2 * bar.font - bar.height) \in {0, 1}
          /\ bar.font = 16 => bar.height < 33
          /\ bar.left = 0
          /\ bar.width = out.width
          /\ bar.top = out.height - bar.height
          /\ bar.top >= 0
          /\ req[r].models = <<>> => out.height = req[r].image.height

====
